---- MODULE Spec2Model ----
(***************************************************************************)
(* A state-machine model of src/gpu/vk/GrVkCommandBuffer.cpp: one command  *)
(* buffer object (primary or secondary, decided by the Create call), the   *)
(* resources it tracks, its cached dynamic state, its submission fence and *)
(* the semaphores it is submitted with.                                    *)
(*                                                                         *)
(* The model is of the SK_DEBUG build: a failed SkASSERT / SK_ABORT ends   *)
(* the process (aborted = TRUE) before the call has emitted or changed     *)
(* anything.  Every action is one whole method call.  lastOp names the     *)
(* last call and its arguments, calls is the ordered log of the native and *)
(* collaborator calls that last call made.                                 *)
(***************************************************************************)
EXTENDS Integers, Sequences, FiniteSets, TLC

VARIABLES
    scen,                       \* input profile the driver draws arguments from
    kind,                       \* "primary" | "secondary" | "none"
    life,                       \* "none" | "null" | "live" | "freed" | "abandoned"
    aborted,                    \* a SkASSERT / SK_ABORT fired
    fIsActive,
    fActiveRenderPass,
    fBoundInputBuffers,
    fBoundIndexBuffer,
    fCachedViewport,
    fCachedScissor,
    fCachedBlendConstant,
    fTrackedResources,
    fTrackedRecycledResources,
    fNumResets,
    fSubmitFence,
    fSecondaryCommandBuffers,
    refCnt,                     \* references this buffer holds on each resource
    secRefs,                    \* references this buffer holds on each secondary
    fenceSignaled,              \* device-side status of the fence object
    gpuBusy,                    \* the device is still executing this buffer
    fenceObserved,              \* caller has seen the last submission complete
    semSignaled,                \* fHasBeenSubmittedToQueueForSignal per semaphore
    semWaited,                  \* fHasBeenSubmittedToQueueForWait per semaphore
    touched,                    \* cached entries written since invalidateState()
    lastSubmit,                 \* what the last native QueueSubmit carried
    threads,                    \* per thread: where it is in submitToQueue, its locals
    mutexOwner,                 \* thread holding the semaphore mutex, or "none"
    submissions,                \* the native submissions that have returned
    lastOp,                     \* [name, arg, ret] of the last call
    calls                       \* native / collaborator calls of the last call

flagVars == <<fIsActive, fActiveRenderPass>>
cacheVars == <<fBoundInputBuffers, fBoundIndexBuffer, fCachedViewport,
               fCachedScissor, fCachedBlendConstant, touched>>
trackVars == <<fTrackedResources, fTrackedRecycledResources, refCnt>>
fenceVars == <<fSubmitFence, fenceSignaled, gpuBusy, fenceObserved>>
mutexVars == <<threads, mutexOwner, submissions>>
semVars == <<semSignaled, semWaited, lastSubmit, mutexVars>>
secVars == <<fSecondaryCommandBuffers, secRefs>>
lifeVars == <<scen, kind, life>>
bufferVars == <<flagVars, cacheVars, trackVars, fNumResets, fenceVars, semVars,
                secVars, lifeVars>>
vars == <<bufferVars, aborted, lastOp, calls>>

-----------------------------------------------------------------------------
(* Bounds of the model *)

\* longest tracked / tracked-recycled list the driver lets a buffer build
MaxTracked == 2
\* most executeCommands calls between two resets
MaxSecondaries == 2
\* most resets of one buffer outside the "reset" profile
MaxResets == 2
\* most submitToQueue calls one thread makes in the concurrent specification
MaxSubmits == 1

(* Program constants *)

\* GrVkCommandBuffer.h: size of fBoundInputBuffers
kMaxInputBuffers == 2
\* GrVkCommandBuffer.h: rewinds between two full resets of the tracking lists
kNumRewindResetsBeforeFullReset == 8
\* GrVkCommandBuffer.h: capacity reserved for the tracking lists
kInitialTrackedResourcesCount == 32
\* updateBuffer's inline payload limit
kMaxUpdateSize == 65536

VK_NULL_HANDLE == "VK_NULL_HANDLE"
nullptr == "nullptr"

-----------------------------------------------------------------------------
(* The objects the driver passes in *)

\* GrVkResource objects: what buffers, images and pipelines are backed by
Resources == {"res1", "res2"}
\* GrVkRecycledResource objects (uniform buffers, descriptor sets)
RecycledResources == {"rec1", "rec2"}
\* GrVkRenderPass objects (GrVkResources themselves)
RenderPasses == {"rp1", "rp2", "rp3"}
\* GrVkSemaphore::Resource objects
Semaphores == {"sem1", "sem2"}
AllResources == Resources \cup RecycledResources \cup RenderPasses \cup Semaphores

\* vertex / index buffers; "bufNull" is one whose VkBuffer is VK_NULL_HANDLE
VkBuffers == {"buf1", "buf2"}
buffer(b) ==
    IF b = "bufNull" THEN VK_NULL_HANDLE ELSE b
resource(b) ==
    IF b = "buf2" THEN "res2" ELSE "res1"

\* renderPass->stencilAttachmentIndex(&i) and renderPass->clearValueCount()
stencilAttachmentIndex(rp) ==
    rp \in {"rp2", "rp3"}
clearValueCount(rp) ==
    CASE rp = "rp1" -> 1
      [] rp = "rp2" -> 1
      [] OTHER -> 0
\* GrVkRenderPass::isCompatible between two render passes / with a target
isCompatible(rp, other) ==
    (rp = "rp3") = (other = "rp3")
RenderTargets == {"rt1", "rt3"}
isCompatibleTarget(rp, target) ==
    (rp = "rp3") = (target = "rt3")
\* GrVkRenderTarget::addResources: the target's backing resources
targetResources(target) ==
    <<"res1">>

\* VkViewport as <<x, y, width, height, minDepth, maxDepth>>, VkRect2D as
\* <<offset.x, offset.y, extent.width, extent.height>>, the blend constants
\* as 4 floats; a number stands for the bit pattern of that value.
Viewports ==
    {<<0, 0, 1, 1, 0, 1>>, <<0, 0, 2, 1, 0, 1>>, <<0, 0, 1, 0, 0, 0>>,
     <<0, 0, -1, 0, 0, 0>>}
Scissors ==
    {<<0, 0, 1, 1>>, <<1, 0, 1, 1>>, <<-1, 0, 0, 0>>}
BlendConstants ==
    {<<0, 0, 0, 0>>, <<1, 0, 0, 1>>, <<-1, -1, -1, -1>>}

\* memcmp(a, b, sizeof) over the bit patterns: 0 iff every field is identical
memcmp(a, b) ==
    IF \A i \in DOMAIN a : a[i] = b[i] THEN 0 ELSE 1

\* A profile is one family of call sequences the driver explores: the
\* operations it calls besides the life-cycle ones, and the arguments it
\* varies.  The profiles together call every operation.
Profiles == {"dyn", "bind", "track", "pass", "fence", "sems", "reset"}
ProfileGroups ==
    [dyn |-> {"dyn", "nest"},
     bind |-> {"bind", "nest"},
     track |-> {"track", "pipeline"},
     pass |-> {"pass", "nest", "track", "pipeline"},
     fence |-> {"submit", "pipeline"},
     sems |-> {"submit"},
     reset |-> {"pipeline"}]
Drives(group) ==
    group \in ProfileGroups[scen]

ViewportArgs ==
    IF scen = "dyn" THEN Viewports ELSE {<<0, 0, 1, 1, 0, 1>>}
ScissorArgs ==
    IF scen = "dyn" THEN Scissors ELSE {<<0, 0, 1, 1>>}
BlendArgs ==
    IF scen = "dyn" THEN BlendConstants ELSE {<<0, 0, 0, 0>>}
BufferArgs ==
    IF scen = "bind" THEN VkBuffers \cup {"bufNull"} ELSE {"buf1"}
BindingArgs ==
    IF scen = "bind" THEN 0 .. kMaxInputBuffers ELSE {0}
ResourceArgs ==
    IF scen = "track" THEN Resources ELSE {"res1"}
RecycledArgs ==
    IF scen = "track" THEN RecycledResources ELSE {"rec1"}
RenderPassArgs ==
    IF scen = "pass" THEN RenderPasses ELSE {"rp1"}
TargetArgs ==
    IF scen = "pass" THEN RenderTargets ELSE {"rt1"}
SemaphoreLists ==
    IF scen = "sems"
    THEN {<<>>, <<"sem1">>, <<"sem2">>, <<"sem1", "sem2">>}
    ELSE {<<>>}

-----------------------------------------------------------------------------
(* Helpers *)

Call(c, r, k) ==
    [call |-> c, res |-> r, n |-> k]

RECURSIVE Count(_, _)
Count(s, x) ==
    IF s = <<>> THEN 0
    ELSE (IF Head(s) = x THEN 1 ELSE 0) + Count(Tail(s), x)

RECURSIVE MapCalls(_, _)
MapCalls(c, s) ==
    IF s = <<>> THEN <<>>
    ELSE <<Call(c, Head(s), 0)>> \o MapCalls(c, Tail(s))

CallNames(log) ==
    [i \in DOMAIN log |-> log[i].call]

Live ==
    life = "live" /\ ~aborted

\* the call returned normally, having made the calls in log
Accept(name, arg, log) ==
    /\ lastOp' = [name |-> name, arg |-> arg, ret |-> "void"]
    /\ calls' = log
    /\ aborted' = FALSE

\* a SkASSERT of the call failed: nothing emitted, nothing changed
Reject(name, arg) ==
    /\ lastOp' = [name |-> name, arg |-> arg, ret |-> "void"]
    /\ calls' = <<>>
    /\ aborted' = TRUE
    /\ UNCHANGED bufferVars

-----------------------------------------------------------------------------
(* GrVkCommandBuffer: state cache and resource tracking *)

\* the "unset" values invalidateState() writes
MutInvalidViewportWidth1 ==
    <<0, 0, 1, 0, 0, 0>>
InvalidViewport ==
    <<0, 0, -1, 0, 0, 0>>
InvalidScissor ==
    <<-1, 0, 0, 0>>
InvalidBlendConstant ==
    <<-1, -1, -1, -1>>

InputSlots == 0 .. (kMaxInputBuffers - 1)
NothingTouched == [state |-> {}, input |-> {}]

MutInvalidateStateKeepsViewport ==
    /\ fBoundInputBuffers' = [i \in InputSlots |-> VK_NULL_HANDLE]
    /\ fBoundIndexBuffer' = VK_NULL_HANDLE
    /\ fCachedViewport' = fCachedViewport
    /\ fCachedScissor' = InvalidScissor
    /\ fCachedBlendConstant' = InvalidBlendConstant
    /\ touched' = NothingTouched
invalidateState ==
    /\ fBoundInputBuffers' = [i \in InputSlots |-> VK_NULL_HANDLE]
    /\ fBoundIndexBuffer' = VK_NULL_HANDLE
    /\ fCachedViewport' = InvalidViewport
    /\ fCachedScissor' = InvalidScissor
    /\ fCachedBlendConstant' = InvalidBlendConstant
    /\ touched' = NothingTouched

\* the model lets a list grow to MaxTracked entries
Room(recycled, resources) ==
    /\ Len(fTrackedResources) + Len(resources) <= MaxTracked
    /\ Len(fTrackedRecycledResources) + Len(recycled) <= MaxTracked

\* addRecycledResource on each of recycled, then addResource on each of
\* resources: ref() the resource and append it to its list
addResources(recycled, resources) ==
    /\ fTrackedRecycledResources' = fTrackedRecycledResources \o recycled
    /\ fTrackedResources' = fTrackedResources \o resources
    /\ refCnt' = [r \in AllResources |->
                    refCnt[r] + Count(recycled, r) + Count(resources, r)]

addResource(r) ==
    addResources(<<>>, <<r>>)

\* the release loops of reset() and freeGPUData()
MutUnrefTrackedSkipLast(list) ==
    MapCalls("unref", SubSeq(list, 1, Len(list) - 1))
UnrefTracked(list) ==
    MapCalls("unref", list)
MutRecycleTrackedTwice(list) ==
    MapCalls("recycle", list \o list)
RecycleTracked(list) ==
    MapCalls("recycle", list)
\* the release loops of abandonGPUData()
MutAbandonTrackedRecycles(list) ==
    MapCalls("recycle", list)
AbandonTracked(list) ==
    MapCalls("unrefAndAbandon", list)

ReleaseCalls == {"unref", "recycle", "unrefAndAbandon"}
Released(log, r) ==
    Cardinality({i \in DOMAIN log : log[i].call \in ReleaseCalls /\ log[i].res = r})
\* each release call of log gives one reference back
releaseAll(log) ==
    refCnt' = [r \in AllResources |-> refCnt[r] - Released(log, r)]

\* GrVkPrimaryCommandBuffer::onReset; a secondary buffer's hook is empty
MutOnResetSkipsFirst ==
    IF kind = "primary"
    THEN MapCalls("recycleSecondaryCommandBuffer",
                  SubSeq(fSecondaryCommandBuffers, 2, Len(fSecondaryCommandBuffers)))
    ELSE <<>>
onReset ==
    IF kind = "primary"
    THEN MapCalls("recycleSecondaryCommandBuffer", fSecondaryCommandBuffers)
    ELSE <<>>

\* the storage policy of reset(): which SkTDArray calls the lists get
MutFullResetAfterOne(n) ==
    n + 1 > 1
MutFullResetOnKth(n) ==
    n + 1 >= kNumRewindResetsBeforeFullReset
FullReset(n) ==
    n + 1 > kNumRewindResetsBeforeFullReset
StorageCalls(n) ==
    IF FullReset(n)
    THEN <<Call("SkTDArray::reset", "fTrackedResources", 0),
           Call("SkTDArray::reset", "fTrackedRecycledResources", 0),
           Call("SkTDArray::setReserve", "fTrackedResources",
                kInitialTrackedResourcesCount),
           Call("SkTDArray::setReserve", "fTrackedRecycledResources",
                kInitialTrackedResourcesCount)>>
    ELSE <<Call("SkTDArray::rewind", "fTrackedResources", 0),
           Call("SkTDArray::rewind", "fTrackedRecycledResources", 0)>>

NoSecRefs == [s \in {"sec1", "sec2"} |-> 0]

reset ==
    /\ Live
    /\ scen = "reset" \/ fNumResets < MaxResets
    /\ IF ~fIsActive
       THEN LET log == UnrefTracked(fTrackedResources)
                       \o RecycleTracked(fTrackedRecycledResources)
                       \o StorageCalls(fNumResets)
                       \o <<Call("ResetCommandBuffer", "fCmdBuffer", 0)>>
                       \o onReset
            IN /\ Accept("reset", <<>>, log)
               /\ releaseAll(log)
               /\ fTrackedResources' = <<>>
               /\ fTrackedRecycledResources' = <<>>
               /\ fNumResets' = IF FullReset(fNumResets) THEN 0 ELSE fNumResets + 1
               /\ invalidateState
               /\ IF kind = "primary"
                  THEN fSecondaryCommandBuffers' = <<>> /\ secRefs' = NoSecRefs
                  ELSE UNCHANGED secVars
               /\ UNCHANGED <<flagVars, fenceVars, semVars, lifeVars>>
       ELSE Reject("reset", <<>>)

\* GrVkPrimaryCommandBuffer::onFreeGPUData; a secondary buffer's hook is empty
onFreeGPUData ==
    IF kind = "primary" /\ fSubmitFence # VK_NULL_HANDLE
    THEN <<Call("DestroyFence", fSubmitFence, 0)>>
    ELSE <<>>

freeGPUData ==
    /\ Live
    /\ IF ~fIsActive
       THEN LET log == UnrefTracked(fTrackedResources)
                       \o RecycleTracked(fTrackedRecycledResources)
                       \o <<Call("FreeCommandBuffers", "fCmdBuffer", 1)>>
            IN /\ releaseAll(log)
               /\ lastOp' = [name |-> "freeGPUData", arg |-> <<>>, ret |-> "void"]
               /\ IF kind = "primary" /\ fActiveRenderPass # nullptr
                  THEN \* SkASSERT(!fActiveRenderPass) of onFreeGPUData
                       /\ calls' = log
                       /\ aborted' = TRUE
                       /\ UNCHANGED life
                  ELSE /\ calls' = log \o onFreeGPUData
                       /\ aborted' = FALSE
                       /\ life' = "freed"
               /\ UNCHANGED <<flagVars, cacheVars, fTrackedResources,
                              fTrackedRecycledResources, fNumResets, fenceVars,
                              semVars, secVars, scen, kind>>
       ELSE Reject("freeGPUData", <<>>)

abandonGPUData ==
    /\ Live
    /\ LET log == AbandonTracked(fTrackedResources)
                  \o AbandonTracked(fTrackedRecycledResources)
       IN /\ Accept("abandonGPUData", <<>>, log)
          /\ releaseAll(log)
          /\ life' = "abandoned"
          /\ UNCHANGED <<flagVars, cacheVars, fTrackedResources,
                         fTrackedRecycledResources, fNumResets, fenceVars,
                         semVars, secVars, scen, kind>>

-----------------------------------------------------------------------------
(* GrVkCommandBuffer: recording commands *)

BarrierTypes == {"kMemory_BarrierType", "kBufferMemory_BarrierType",
                 "kImageMemory_BarrierType"}

MutPipelineBarrierAssertsActiveOnly ==
    fIsActive
\* SkASSERT(fIsActive); SkASSERT(!fActiveRenderPass): barriers are not
\* recorded inside a render pass
PipelineBarrierAsserts ==
    fIsActive /\ fActiveRenderPass = nullptr

pipelineBarrier(byRegion, barrierType) ==
    /\ Live
    /\ LET arg == <<byRegion, barrierType>>
           dependencyFlags == IF byRegion THEN 1 ELSE 0
       IN IF PipelineBarrierAsserts
          THEN /\ Accept("pipelineBarrier", arg,
                         <<Call("CmdPipelineBarrier", barrierType, dependencyFlags)>>)
               /\ UNCHANGED bufferVars
          ELSE Reject("pipelineBarrier", arg)

Touch(entry) ==
    [touched EXCEPT !.state = @ \cup {entry}]
TouchInput(binding) ==
    [touched EXCEPT !.input = @ \cup {binding}]

MutInputBufferChangedSlot0(binding, vkBuffer) ==
    vkBuffer # fBoundInputBuffers[0]
InputBufferChanged(binding, vkBuffer) ==
    vkBuffer # fBoundInputBuffers[binding]

BindInputBufferAsserts(binding, vbuffer) ==
    VK_NULL_HANDLE # buffer(vbuffer) /\ binding < kMaxInputBuffers

bindInputBuffer(binding, vbuffer) ==
    /\ Live
    /\ LET arg == <<binding, vbuffer>>
           vkBuffer == buffer(vbuffer)
       IN IF BindInputBufferAsserts(binding, vbuffer)
          THEN IF InputBufferChanged(binding, vkBuffer)
               THEN /\ Room(<<>>, <<resource(vbuffer)>>)
                    /\ Accept("bindInputBuffer", arg,
                              <<Call("CmdBindVertexBuffers", vkBuffer, binding)>>)
                    /\ fBoundInputBuffers' =
                           [fBoundInputBuffers EXCEPT ![binding] = vkBuffer]
                    /\ addResource(resource(vbuffer))
                    /\ touched' = TouchInput(binding)
                    /\ UNCHANGED <<flagVars, fBoundIndexBuffer, fCachedViewport,
                                   fCachedScissor, fCachedBlendConstant, fNumResets,
                                   fenceVars, semVars, secVars, lifeVars>>
               ELSE /\ Accept("bindInputBuffer", arg, <<>>)
                    /\ touched' = TouchInput(binding)
                    /\ UNCHANGED <<flagVars, fBoundInputBuffers, fBoundIndexBuffer,
                                   fCachedViewport, fCachedScissor,
                                   fCachedBlendConstant, trackVars, fNumResets,
                                   fenceVars, semVars, secVars, lifeVars>>
          ELSE Reject("bindInputBuffer", arg)

bindIndexBuffer(ibuffer) ==
    /\ Live
    /\ LET vkBuffer == buffer(ibuffer)
       IN IF VK_NULL_HANDLE # vkBuffer
          THEN IF vkBuffer # fBoundIndexBuffer
               THEN /\ Room(<<>>, <<resource(ibuffer)>>)
                    /\ Accept("bindIndexBuffer", ibuffer,
                              <<Call("CmdBindIndexBuffer", vkBuffer, 0)>>)
                    /\ fBoundIndexBuffer' = vkBuffer
                    /\ addResource(resource(ibuffer))
                    /\ touched' = Touch("index")
                    /\ UNCHANGED <<flagVars, fBoundInputBuffers, fCachedViewport,
                                   fCachedScissor, fCachedBlendConstant, fNumResets,
                                   fenceVars, semVars, secVars, lifeVars>>
               ELSE /\ Accept("bindIndexBuffer", ibuffer, <<>>)
                    /\ touched' = Touch("index")
                    /\ UNCHANGED <<flagVars, fBoundInputBuffers, fBoundIndexBuffer,
                                   fCachedViewport, fCachedScissor,
                                   fCachedBlendConstant, trackVars, fNumResets,
                                   fenceVars, semVars, secVars, lifeVars>>
          ELSE Reject("bindIndexBuffer", ibuffer)

\* colorIndexOk: every colour attachment names the render pass's colour index
MutClearAttachmentsAssertsNoCount(numAttachments, numRects, colorIndexOk) ==
    /\ fIsActive
    /\ fActiveRenderPass # nullptr
    /\ numRects > 0
    /\ colorIndexOk
ClearAttachmentsAsserts(numAttachments, numRects, colorIndexOk) ==
    /\ fIsActive
    /\ fActiveRenderPass # nullptr
    /\ numAttachments > 0
    /\ numRects > 0
    /\ colorIndexOk

clearAttachments(numAttachments, numRects, colorIndexOk) ==
    /\ Live
    /\ LET arg == <<numAttachments, numRects, colorIndexOk>>
       IN IF ClearAttachmentsAsserts(numAttachments, numRects, colorIndexOk)
          THEN /\ Accept("clearAttachments", arg,
                         <<Call("CmdClearAttachments", "fCmdBuffer", numAttachments)>>)
               /\ UNCHANGED bufferVars
          ELSE Reject("clearAttachments", arg)

\* GrVkPipelineState::addUniformResources: the uniform buffers and descriptor
\* sets of the pipeline state, and the resources it samples
uniformRecycled(pipelineState) ==
    <<"rec1">>
uniformResources(pipelineState) ==
    <<"res1">>

bindDescriptorSetsFromState(pipelineState) ==
    /\ Live
    /\ IF fIsActive
       THEN /\ Room(uniformRecycled(pipelineState), uniformResources(pipelineState))
            /\ Accept("bindDescriptorSets", pipelineState,
                      <<Call("CmdBindDescriptorSets", "fCmdBuffer", 0)>>)
            /\ addResources(uniformRecycled(pipelineState),
                            uniformResources(pipelineState))
            /\ UNCHANGED <<flagVars, cacheVars, fNumResets, fenceVars, semVars,
                           secVars, lifeVars>>
       ELSE Reject("bindDescriptorSets", pipelineState)

bindDescriptorSets(recycled, resources) ==
    /\ Live
    /\ LET arg == <<recycled, resources>>
       IN IF fIsActive
          THEN /\ Room(recycled, resources)
               /\ Accept("bindDescriptorSets", arg,
                         <<Call("CmdBindDescriptorSets", "fCmdBuffer", 0)>>)
               /\ addResources(recycled, resources)
               /\ UNCHANGED <<flagVars, cacheVars, fNumResets, fenceVars, semVars,
                              secVars, lifeVars>>
          ELSE Reject("bindDescriptorSets", arg)

bindPipeline(pipeline) ==
    /\ Live
    /\ IF fIsActive
       THEN /\ Room(<<>>, <<pipeline>>)
            /\ Accept("bindPipeline", pipeline,
                      <<Call("CmdBindPipeline", pipeline, 0)>>)
            /\ addResource(pipeline)
            /\ UNCHANGED <<flagVars, cacheVars, fNumResets, fenceVars, semVars,
                           secVars, lifeVars>>
       ELSE Reject("bindPipeline", pipeline)

drawIndexed(indexCount) ==
    /\ Live
    /\ IF fIsActive /\ fActiveRenderPass # nullptr
       THEN /\ Accept("drawIndexed", indexCount,
                      <<Call("CmdDrawIndexed", "fCmdBuffer", indexCount)>>)
            /\ UNCHANGED bufferVars
       ELSE Reject("drawIndexed", indexCount)

draw(vertexCount) ==
    /\ Live
    /\ IF fIsActive /\ fActiveRenderPass # nullptr
       THEN /\ Accept("draw", vertexCount,
                      <<Call("CmdDraw", "fCmdBuffer", vertexCount)>>)
            /\ UNCHANGED bufferVars
       ELSE Reject("draw", vertexCount)

MutViewportChanged(viewport) ==
    viewport[3] # fCachedViewport[3]
ViewportChanged(viewport) ==
    memcmp(viewport, fCachedViewport) # 0

setViewport(viewportCount, viewport) ==
    /\ Live
    /\ LET arg == <<viewportCount, viewport>>
       IN IF fIsActive /\ 1 = viewportCount
          THEN IF ViewportChanged(viewport)
               THEN /\ Accept("setViewport", arg,
                              <<Call("CmdSetViewport", "fCmdBuffer", viewportCount)>>)
                    /\ fCachedViewport' = viewport
                    /\ touched' = Touch("viewport")
                    /\ UNCHANGED <<flagVars, fBoundInputBuffers, fBoundIndexBuffer,
                                   fCachedScissor, fCachedBlendConstant, trackVars,
                                   fNumResets, fenceVars, semVars, secVars, lifeVars>>
               ELSE /\ Accept("setViewport", arg, <<>>)
                    /\ touched' = Touch("viewport")
                    /\ UNCHANGED <<flagVars, fBoundInputBuffers, fBoundIndexBuffer,
                                   fCachedViewport, fCachedScissor,
                                   fCachedBlendConstant, trackVars,
                                   fNumResets, fenceVars, semVars, secVars, lifeVars>>
          ELSE Reject("setViewport", arg)

setScissor(scissorCount, scissor) ==
    /\ Live
    /\ LET arg == <<scissorCount, scissor>>
       IN IF fIsActive /\ 1 = scissorCount
          THEN IF memcmp(scissor, fCachedScissor) # 0
               THEN /\ Accept("setScissor", arg,
                              <<Call("CmdSetScissor", "fCmdBuffer", scissorCount)>>)
                    /\ fCachedScissor' = scissor
                    /\ touched' = Touch("scissor")
                    /\ UNCHANGED <<flagVars, fBoundInputBuffers, fBoundIndexBuffer,
                                   fCachedViewport, fCachedBlendConstant, trackVars,
                                   fNumResets, fenceVars, semVars, secVars, lifeVars>>
               ELSE /\ Accept("setScissor", arg, <<>>)
                    /\ touched' = Touch("scissor")
                    /\ UNCHANGED <<flagVars, fBoundInputBuffers, fBoundIndexBuffer,
                                   fCachedViewport, fCachedScissor,
                                   fCachedBlendConstant, trackVars,
                                   fNumResets, fenceVars, semVars, secVars, lifeVars>>
          ELSE Reject("setScissor", arg)

setBlendConstants(blendConstants) ==
    /\ Live
    /\ IF fIsActive
       THEN IF memcmp(blendConstants, fCachedBlendConstant) # 0
            THEN /\ Accept("setBlendConstants", blendConstants,
                           <<Call("CmdSetBlendConstants", "fCmdBuffer", 0)>>)
                 /\ fCachedBlendConstant' = blendConstants
                 /\ touched' = Touch("blend")
                 /\ UNCHANGED <<flagVars, fBoundInputBuffers, fBoundIndexBuffer,
                                fCachedViewport, fCachedScissor, trackVars,
                                fNumResets, fenceVars, semVars, secVars, lifeVars>>
            ELSE /\ Accept("setBlendConstants", blendConstants, <<>>)
                 /\ touched' = Touch("blend")
                 /\ UNCHANGED <<flagVars, fBoundInputBuffers, fBoundIndexBuffer,
                                fCachedViewport, fCachedScissor,
                                fCachedBlendConstant, trackVars,
                                fNumResets, fenceVars, semVars, secVars, lifeVars>>
       ELSE Reject("setBlendConstants", blendConstants)

-----------------------------------------------------------------------------
(* GrVkPrimaryCommandBuffer / GrVkSecondaryCommandBuffer: construction *)

NativeResults ==
    IF scen = "fence" THEN {"VK_SUCCESS", "VK_ERROR_DEVICE_LOST"} ELSE {"VK_SUCCESS"}

\* the fields as the constructors of GrVkCommandBuffer.h leave them
Constructed(k) ==
    /\ kind' = k
    /\ life' = "live"
    /\ fIsActive' = FALSE
    /\ fActiveRenderPass' = nullptr
    /\ fNumResets' = 0
    /\ fSubmitFence' = VK_NULL_HANDLE
    /\ fTrackedResources' = <<>>
    /\ fTrackedRecycledResources' = <<>>
    /\ fSecondaryCommandBuffers' = <<>>
    /\ invalidateState

\* GrVkPrimaryCommandBuffer::Create and GrVkSecondaryCommandBuffer::Create
Create(k, err) ==
    /\ life = "none"
    /\ ~aborted
    /\ calls' = <<Call("AllocateCommandBuffers", k, 1)>>
    /\ aborted' = FALSE
    /\ IF err # "VK_SUCCESS"
       THEN /\ lastOp' = [name |-> "Create", arg |-> <<k, err>>, ret |-> nullptr]
            /\ life' = "null"
            /\ UNCHANGED <<flagVars, cacheVars, trackVars, fNumResets, fenceVars,
                           semVars, secVars, scen, kind>>
       ELSE /\ lastOp' = [name |-> "Create", arg |-> <<k, err>>, ret |-> "buffer"]
            /\ Constructed(k)
            /\ UNCHANGED <<refCnt, secRefs, fenceSignaled, gpuBusy, fenceObserved,
                           semVars, scen>>

-----------------------------------------------------------------------------
(* GrVkPrimaryCommandBuffer: recording state *)

\* GR_VK_CALL_ERRCHECK: the native call was made and its result asserted
NativeFailed(name, arg, log) ==
    /\ lastOp' = [name |-> name, arg |-> arg, ret |-> "void"]
    /\ calls' = log
    /\ aborted' = TRUE
    /\ UNCHANGED bufferVars

begin(err) ==
    /\ Live
    /\ kind = "primary"
    /\ IF ~fIsActive
       THEN IF err = "VK_SUCCESS"
            THEN /\ Accept("begin", err, <<Call("BeginCommandBuffer", "fCmdBuffer", 0)>>)
                 /\ fIsActive' = TRUE
                 /\ UNCHANGED <<fActiveRenderPass, cacheVars, trackVars, fNumResets,
                                fenceVars, semVars, secVars, lifeVars>>
            ELSE NativeFailed("begin", err,
                              <<Call("BeginCommandBuffer", "fCmdBuffer", 0)>>)
       ELSE Reject("begin", err)

MutEndKeepsActive(active) ==
    active
EndedActive(active) ==
    FALSE

MutEndAssertsActiveOnly ==
    fIsActive
EndAsserts ==
    fIsActive /\ fActiveRenderPass = nullptr

end(err) ==
    /\ Live
    /\ kind = "primary"
    /\ IF EndAsserts
       THEN IF err = "VK_SUCCESS"
            THEN /\ Accept("end", err, <<Call("EndCommandBuffer", "fCmdBuffer", 0)>>)
                 /\ invalidateState
                 /\ fIsActive' = EndedActive(fIsActive)
                 /\ UNCHANGED <<fActiveRenderPass, trackVars, fNumResets,
                                fenceVars, semVars, secVars, lifeVars>>
            ELSE NativeFailed("end", err,
                              <<Call("EndCommandBuffer", "fCmdBuffer", 0)>>)
       ELSE Reject("end", err)

\* beginInfo.clearValueCount of beginRenderPass
MutClearValueCountUnadjusted(renderPass) ==
    clearValueCount(renderPass)
BeginInfoClearValueCount(renderPass) ==
    IF stencilAttachmentIndex(renderPass)
    THEN (IF clearValueCount(renderPass) # 0 THEN 2 ELSE 0)
    ELSE clearValueCount(renderPass)

SubpassContents(forSecondaryCB) ==
    IF forSecondaryCB
    THEN "VK_SUBPASS_CONTENTS_SECONDARY_COMMAND_BUFFERS"
    ELSE "VK_SUBPASS_CONTENTS_INLINE"

beginRenderPass(renderPass, target, forSecondaryCB) ==
    /\ Live
    /\ kind = "primary"
    /\ LET arg == <<renderPass, target, forSecondaryCB>>
           tracked == <<renderPass>> \o targetResources(target)
       IN IF /\ fIsActive
             /\ fActiveRenderPass = nullptr
             /\ isCompatibleTarget(renderPass, target)
          THEN /\ Room(<<>>, tracked)
               /\ Accept("beginRenderPass", arg,
                         <<Call("CmdBeginRenderPass", SubpassContents(forSecondaryCB),
                                BeginInfoClearValueCount(renderPass))>>)
               /\ fActiveRenderPass' = renderPass
               /\ addResources(<<>>, tracked)
               /\ UNCHANGED <<fIsActive, cacheVars, fNumResets, fenceVars, semVars,
                              secVars, lifeVars>>
          ELSE Reject("beginRenderPass", arg)

MutEndRenderPassAssertsActiveOnly ==
    fIsActive
EndRenderPassAsserts ==
    fIsActive /\ fActiveRenderPass # nullptr

endRenderPass ==
    /\ Live
    /\ kind = "primary"
    /\ IF EndRenderPassAsserts
       THEN /\ Accept("endRenderPass", <<>>,
                      <<Call("CmdEndRenderPass", "fCmdBuffer", 0)>>)
            /\ fActiveRenderPass' = nullptr
            /\ UNCHANGED <<fIsActive, cacheVars, trackVars, fNumResets, fenceVars,
                           semVars, secVars, lifeVars>>
       ELSE Reject("endRenderPass", <<>>)

\* the secondary buffers a caller can hand to executeCommands: never begun,
\* recording, or ended (end() keeps the render pass begin() stored)
SecondaryIds ==
    IF scen = "pass" THEN {"sec1", "sec2"} ELSE {"sec1"}
SecondaryArgs ==
    {[id |-> i, fIsActive |-> FALSE, fActiveRenderPass |-> nullptr] : i \in SecondaryIds}
    \cup {[id |-> i, fIsActive |-> a, fActiveRenderPass |-> rp] :
            i \in SecondaryIds, a \in BOOLEAN, rp \in RenderPassArgs}

\* *buffer->fActiveRenderPass of a buffer that was never begun dereferences a
\* null pointer: the build may crash there or let the comparison pass
executeCommands(secondary, nullDerefPasses) ==
    /\ Live
    /\ kind = "primary"
    /\ IF /\ fIsActive
          /\ ~secondary.fIsActive
          /\ fActiveRenderPass # nullptr
          /\ IF secondary.fActiveRenderPass = nullptr
             THEN nullDerefPasses
             ELSE isCompatible(fActiveRenderPass, secondary.fActiveRenderPass)
       THEN /\ Len(fSecondaryCommandBuffers) < MaxSecondaries
            /\ Accept("executeCommands", secondary,
                      <<Call("CmdExecuteCommands", secondary.id, 1)>>)
            /\ secRefs' = [secRefs EXCEPT ![secondary.id] = @ + 1]
            /\ fSecondaryCommandBuffers' = Append(fSecondaryCommandBuffers, secondary.id)
            /\ invalidateState
            /\ UNCHANGED <<flagVars, trackVars, fNumResets, fenceVars, semVars,
                           lifeVars>>
       ELSE Reject("executeCommands", secondary)

-----------------------------------------------------------------------------
(* GrVkPrimaryCommandBuffer: submission and its fence *)

\* GrVkSemaphore::Resource::shouldSignal / shouldWait
shouldSignal(sem) ==
    ~semSignaled[sem]
shouldWait(sem) ==
    ~semWaited[sem]

\* the semaphores the filter loops of submitToQueue pass on
MutVkSignalSemsUnfiltered(signalSemaphores) ==
    signalSemaphores
vkSignalSems(signalSemaphores) ==
    SelectSeq(signalSemaphores, LAMBDA s : shouldSignal(s))
vkWaitSems(waitSemaphores) ==
    SelectSeq(waitSemaphores, LAMBDA s : shouldWait(s))

Range(s) ==
    {s[i] : i \in DOMAIN s}

MutSubmitLogAlwaysCreates(signalSemaphores, waitSemaphores) ==
    <<Call("CreateFence", "fence", 0)>>
    \o (IF Len(signalSemaphores) = 0 /\ Len(waitSemaphores) = 0
        THEN <<Call("QueueSubmit", "fence", 1)>>
        ELSE <<Call("AcquireMutex", "mutex", 0),
               Call("QueueSubmit", "fence", 1),
               Call("ReleaseMutex", "mutex", 0)>>)
MutSubmitLogAlwaysLocks(signalSemaphores, waitSemaphores) ==
    (IF fSubmitFence = VK_NULL_HANDLE
     THEN <<Call("CreateFence", "fence", 0)>>
     ELSE <<Call("ResetFences", fSubmitFence, 1)>>)
    \o <<Call("AcquireMutex", "mutex", 0),
         Call("QueueSubmit", "fence", 1),
         Call("ReleaseMutex", "mutex", 0)>>
\* the native calls of submitToQueue up to and including the submission
SubmitLog(signalSemaphores, waitSemaphores) ==
    (IF fSubmitFence = VK_NULL_HANDLE
     THEN <<Call("CreateFence", "fence", 0)>>
     ELSE <<Call("ResetFences", fSubmitFence, 1)>>)
    \o (IF Len(signalSemaphores) = 0 /\ Len(waitSemaphores) = 0
        THEN <<Call("QueueSubmit", "fence", 1)>>
        ELSE <<Call("AcquireMutex", "mutex", 0),
               Call("QueueSubmit", "fence", 1),
               Call("ReleaseMutex", "mutex", 0)>>)

SyncPolicies == {"kForce_SyncQueue", "kSkip_SyncQueue"}
WaitResults ==
    IF scen = "fence"
    THEN {"VK_SUCCESS", "VK_TIMEOUT", "VK_ERROR_DEVICE_LOST"}
    ELSE {"VK_SUCCESS"}

\* the checks on the result of WaitForFences: SK_ABORT on VK_TIMEOUT, then
\* SkASSERT(!err)
MutSyncWaitToleratesTimeout(waitErr) ==
    waitErr \notin {"VK_SUCCESS", "VK_TIMEOUT"}
SyncWaitAborts(waitErr) ==
    waitErr = "VK_TIMEOUT" \/ waitErr # "VK_SUCCESS"

submitToQueue(sync, signalSemaphores, waitSemaphores, createErr, waitErr) ==
    /\ Live
    /\ kind = "primary"
    /\ LET arg == <<sync, signalSemaphores, waitSemaphores>>
           sig == vkSignalSems(signalSemaphores)
           wait == vkWaitSems(waitSemaphores)
           log == SubmitLog(signalSemaphores, waitSemaphores)
       IN IF fIsActive
          THEN Reject("submitToQueue", arg)
          ELSE IF fSubmitFence = VK_NULL_HANDLE /\ createErr # "VK_SUCCESS"
          THEN \* SkASSERT(!err) after CreateFence
               NativeFailed("submitToQueue", arg, <<Call("CreateFence", "fence", 0)>>)
          ELSE /\ Room(<<>>, sig \o wait)
               /\ lastOp' = [name |-> "submitToQueue", arg |-> arg, ret |-> "void"]
               /\ addResources(<<>>, sig \o wait)
               /\ lastSubmit' = [fence |-> "fence", commandBufferCount |-> 1,
                                 signal |-> sig, wait |-> wait]
               /\ semSignaled' = [s \in Semaphores |->
                                    semSignaled[s] \/ s \in Range(signalSemaphores)]
               /\ semWaited' = [s \in Semaphores |->
                                    semWaited[s] \/ s \in Range(waitSemaphores)]
               /\ UNCHANGED mutexVars
               /\ IF sync = "kForce_SyncQueue"
                  THEN IF ~SyncWaitAborts(waitErr)
                       THEN /\ calls' = log \o <<Call("WaitForFences", "fence", 1),
                                                 Call("DestroyFence", "fence", 0)>>
                            /\ aborted' = FALSE
                            /\ fSubmitFence' = VK_NULL_HANDLE
                            /\ fenceSignaled' = (waitErr = "VK_SUCCESS")
                            /\ gpuBusy' = (waitErr # "VK_SUCCESS")
                            /\ fenceObserved' = TRUE
                       ELSE \* SK_ABORT on VK_TIMEOUT, SkASSERT(!err) otherwise
                            /\ calls' = log \o <<Call("WaitForFences", "fence", 1)>>
                            /\ aborted' = TRUE
                            /\ fSubmitFence' = "fence"
                            /\ fenceSignaled' = FALSE
                            /\ gpuBusy' = TRUE
                            /\ fenceObserved' = FALSE
                  ELSE /\ calls' = log
                       /\ aborted' = FALSE
                       /\ fSubmitFence' = "fence"
                       /\ fenceSignaled' = FALSE
                       /\ gpuBusy' = TRUE
                       /\ fenceObserved' = FALSE
               /\ UNCHANGED <<flagVars, cacheVars, fNumResets, secVars, lifeVars>>

\* the device finishes executing the submitted buffer and signals its fence
DeviceSignalsFence ==
    /\ Live
    /\ gpuBusy
    /\ fSubmitFence # VK_NULL_HANDLE
    /\ fenceSignaled' = TRUE
    /\ gpuBusy' = FALSE
    /\ lastOp' = [name |-> "DeviceSignalsFence", arg |-> <<>>, ret |-> "void"]
    /\ calls' = <<>>
    /\ UNCHANGED <<flagVars, cacheVars, trackVars, fNumResets, fSubmitFence,
                   fenceObserved, semVars, secVars, lifeVars, aborted>>

\* what GetFenceStatus can answer for the fence
FenceStatuses ==
    {IF fenceSignaled THEN "VK_SUCCESS" ELSE "VK_NOT_READY"}
    \cup (IF scen = "fence" THEN {"VK_ERROR_DEVICE_LOST"} ELSE {})

\* the switch of finished(): "true", "false", or "abort" for SK_ABORT
MutFinishedErrorIsNotReady(err) ==
    IF err = "VK_SUCCESS" THEN "true" ELSE "false"
MutFinishedOnNotReady(err) ==
    IF err \in {"VK_SUCCESS", "VK_NOT_READY"} THEN "true" ELSE "abort"
FinishedResult(err) ==
    CASE err = "VK_SUCCESS" -> "true"
      [] err = "VK_NOT_READY" -> "false"
      [] OTHER -> "abort"

finished(err) ==
    /\ Live
    /\ kind = "primary"
    /\ IF fSubmitFence = VK_NULL_HANDLE
       THEN /\ lastOp' = [name |-> "finished", arg |-> <<>>, ret |-> "true"]
            /\ calls' = <<>>
            /\ aborted' = FALSE
            /\ fenceObserved' = TRUE
       ELSE LET r == FinishedResult(err)
            IN /\ lastOp' = [name |-> "finished", arg |-> err, ret |-> r]
               /\ calls' = <<Call("GetFenceStatus", fSubmitFence, 0)>>
               /\ aborted' = (r = "abort")
               /\ fenceObserved' = (fenceObserved \/ r = "true")
    /\ UNCHANGED <<flagVars, cacheVars, trackVars, fNumResets, fSubmitFence,
                   fenceSignaled, gpuBusy, semVars, secVars, lifeVars>>

-----------------------------------------------------------------------------
(* GrVkPrimaryCommandBuffer::submitToQueue, statement by statement, called   *)
(* by several threads, each on a primary buffer of its own.  The semaphores  *)
(* and GrVkSemaphore's mutex are shared; the fence, the tracked list and the *)
(* locals belong to the thread's call and its buffer.                        *)

Threads == {"t1", "t2"}
ThreadSignalLists == {<<>>, <<"sem1">>, <<"sem1", "sem2">>}
ThreadWaitLists == {<<>>, <<"sem1">>}

\* a thread outside submitToQueue, its buffer freshly created
IdleThread ==
    [pc |-> "idle", sync |-> "kSkip_SyncQueue",
     signalSemaphores |-> <<>>, waitSemaphores |-> <<>>,
     vkSignalSems |-> <<>>, vkWaitSems |-> <<>>, i |-> 0,
     fSubmitFence |-> VK_NULL_HANDLE, fTrackedResources |-> <<>>, submits |-> 0]

\* everything but the threads, the mutex and the semaphores' marks
singleVars == <<flagVars, cacheVars, trackVars, fNumResets, fenceVars, lastSubmit,
                secVars, lifeVars, aborted, lastOp, calls>>

\* if (0 == signalCount && 0 == waitCount)
NoSemaphores(signalCount, waitCount) ==
    0 = signalCount /\ 0 = waitCount

\* the statements of the else branch in the order the code runs them
MutSuccessorMarksBeforeSubmit(pc) ==
    CASE pc = "AcquireMutex" -> "filterSignal"
      [] pc = "filterSignal" -> "filterWait"
      [] pc = "filterWait" -> "markSignal"
      [] pc = "markSignal" -> "markWait"
      [] pc = "markWait" -> "submit"
      [] pc = "submit" -> "ReleaseMutex"
      [] pc = "ReleaseMutex" -> "sync"
Successor(pc) ==
    CASE pc = "AcquireMutex" -> "filterSignal"
      [] pc = "filterSignal" -> "filterWait"
      [] pc = "filterWait" -> "submit"
      [] pc = "submit" -> "markSignal"
      [] pc = "markSignal" -> "markWait"
      [] pc = "markWait" -> "ReleaseMutex"
      [] pc = "ReleaseMutex" -> "sync"

\* GrVkSemaphore::Resource::AcquireMutex returns once no thread holds the mutex
MutMutexAvailableAlways ==
    TRUE
MutexAvailable ==
    mutexOwner = "none"

\* the call, SkASSERT(!fIsActive), the fence created or reset, and the test
\* for semaphores
enterSubmitToQueue(t, sync, signalSemaphores, waitSemaphores) ==
    /\ threads[t].pc = "idle"
    /\ threads[t].submits < MaxSubmits
    /\ threads' = [threads EXCEPT ![t] =
           [@ EXCEPT !.pc = IF NoSemaphores(Len(signalSemaphores), Len(waitSemaphores))
                            THEN "submit" ELSE "AcquireMutex",
                     !.sync = sync,
                     !.signalSemaphores = signalSemaphores,
                     !.waitSemaphores = waitSemaphores,
                     !.fSubmitFence = "fence"]]
    /\ UNCHANGED <<mutexOwner, submissions, semSignaled, semWaited, singleVars>>

AcquireMutex(t) ==
    /\ threads[t].pc = "AcquireMutex"
    /\ MutexAvailable
    /\ mutexOwner' = t
    /\ threads' = [threads EXCEPT ![t] =
           [@ EXCEPT !.pc = Successor("AcquireMutex"), !.i = 1]]
    /\ UNCHANGED <<submissions, semSignaled, semWaited, singleVars>>

\* one round of the loop over signalSemaphores
filterSignal(t) ==
    /\ threads[t].pc = "filterSignal"
    /\ LET th == threads[t]
       IN threads' = [threads EXCEPT ![t] =
              IF th.i > Len(th.signalSemaphores)
              THEN [th EXCEPT !.pc = Successor("filterSignal"), !.i = 1]
              ELSE IF shouldSignal(th.signalSemaphores[th.i])
              THEN [th EXCEPT !.i = @ + 1,
                              !.fTrackedResources = Append(@, th.signalSemaphores[th.i]),
                              !.vkSignalSems = Append(@, th.signalSemaphores[th.i])]
              ELSE [th EXCEPT !.i = @ + 1]]
    /\ UNCHANGED <<mutexOwner, submissions, semSignaled, semWaited, singleVars>>

\* one round of the loop over waitSemaphores
filterWait(t) ==
    /\ threads[t].pc = "filterWait"
    /\ LET th == threads[t]
       IN threads' = [threads EXCEPT ![t] =
              IF th.i > Len(th.waitSemaphores)
              THEN [th EXCEPT !.pc = Successor("filterWait"), !.i = 1]
              ELSE IF shouldWait(th.waitSemaphores[th.i])
              THEN [th EXCEPT !.i = @ + 1,
                              !.fTrackedResources = Append(@, th.waitSemaphores[th.i]),
                              !.vkWaitSems = Append(@, th.waitSemaphores[th.i])]
              ELSE [th EXCEPT !.i = @ + 1]]
    /\ UNCHANGED <<mutexOwner, submissions, semSignaled, semWaited, singleVars>>

\* submit_to_queue has returned: with no semaphores on the direct path, with
\* the filtered ones on the other
submitNative(t) ==
    /\ threads[t].pc = "submit"
    /\ LET th == threads[t]
           direct == NoSemaphores(Len(th.signalSemaphores), Len(th.waitSemaphores))
       IN /\ submissions' = Append(submissions,
                 [thread |-> t, fence |-> th.fSubmitFence, commandBufferCount |-> 1,
                  signalIn |-> th.signalSemaphores, waitIn |-> th.waitSemaphores,
                  signal |-> th.vkSignalSems, wait |-> th.vkWaitSems])
          /\ threads' = [threads EXCEPT ![t] =
                 [th EXCEPT !.pc = IF direct THEN "sync" ELSE Successor("submit"),
                            !.i = 1]]
    /\ UNCHANGED <<mutexOwner, semSignaled, semWaited, singleVars>>

\* one round of the loop calling markAsSignaled
markSignal(t) ==
    /\ threads[t].pc = "markSignal"
    /\ LET th == threads[t]
       IN IF th.i > Len(th.signalSemaphores)
          THEN /\ threads' = [threads EXCEPT ![t] =
                      [th EXCEPT !.pc = Successor("markSignal"), !.i = 1]]
               /\ UNCHANGED semSignaled
          ELSE /\ threads' = [threads EXCEPT ![t] = [th EXCEPT !.i = @ + 1]]
               /\ semSignaled' = [semSignaled EXCEPT ![th.signalSemaphores[th.i]] = TRUE]
    /\ UNCHANGED <<mutexOwner, submissions, semWaited, singleVars>>

\* one round of the loop calling markAsWaited
markWait(t) ==
    /\ threads[t].pc = "markWait"
    /\ LET th == threads[t]
       IN IF th.i > Len(th.waitSemaphores)
          THEN /\ threads' = [threads EXCEPT ![t] =
                      [th EXCEPT !.pc = Successor("markWait"), !.i = 1]]
               /\ UNCHANGED semWaited
          ELSE /\ threads' = [threads EXCEPT ![t] = [th EXCEPT !.i = @ + 1]]
               /\ semWaited' = [semWaited EXCEPT ![th.waitSemaphores[th.i]] = TRUE]
    /\ UNCHANGED <<mutexOwner, submissions, semSignaled, singleVars>>

ReleaseMutex(t) ==
    /\ threads[t].pc = "ReleaseMutex"
    /\ mutexOwner' = "none"
    /\ threads' = [threads EXCEPT ![t] = [@ EXCEPT !.pc = Successor("ReleaseMutex")]]
    /\ UNCHANGED <<submissions, semSignaled, semWaited, singleVars>>

\* the synchronous wait, after which the fence is destroyed, and the return
syncQueue(t) ==
    /\ threads[t].pc = "sync"
    /\ LET th == threads[t]
       IN threads' = [threads EXCEPT ![t] =
              [IdleThread EXCEPT
                 !.fSubmitFence = IF th.sync = "kForce_SyncQueue"
                                  THEN VK_NULL_HANDLE ELSE th.fSubmitFence,
                 !.fTrackedResources = th.fTrackedResources,
                 !.submits = th.submits + 1]]
    /\ UNCHANGED <<mutexOwner, submissions, semSignaled, semWaited, singleVars>>

-----------------------------------------------------------------------------
(* GrVkPrimaryCommandBuffer: transfer and clear commands *)

\* SkASSERT(fIsActive); SkASSERT(!fActiveRenderPass); extra: the command's
\* own asserts; then addResource on each of resources and the native call
TransferAsserts ==
    fIsActive /\ fActiveRenderPass = nullptr

Transfer(name, arg, extra, resources, cmd) ==
    /\ Live
    /\ kind = "primary"
    /\ IF TransferAsserts /\ extra
       THEN /\ Room(<<>>, resources)
            /\ Accept(name, arg, <<Call(cmd, "fCmdBuffer", Len(resources))>>)
            /\ addResources(<<>>, resources)
            /\ UNCHANGED <<flagVars, cacheVars, fNumResets, fenceVars, semVars,
                           secVars, lifeVars>>
       ELSE Reject(name, arg)

copyImage(srcImage, dstImage) ==
    Transfer("copyImage", <<srcImage, dstImage>>, TRUE,
             <<srcImage, dstImage>>, "CmdCopyImage")

blitImage(srcResource, dstResource) ==
    Transfer("blitImage", <<srcResource, dstResource>>, TRUE,
             <<srcResource, dstResource>>, "CmdBlitImage")

\* the overload taking GrVkImages forwards their resources to the other one
blitImageOfImages(srcImage, dstImage) ==
    blitImage(srcImage, dstImage)

copyImageToBuffer(srcImage, dstBuffer) ==
    Transfer("copyImageToBuffer", <<srcImage, dstBuffer>>, TRUE,
             <<srcImage, resource(dstBuffer)>>, "CmdCopyImageToBuffer")

copyBufferToImage(srcBuffer, dstImage) ==
    Transfer("copyBufferToImage", <<srcBuffer, dstImage>>, TRUE,
             <<resource(srcBuffer), dstImage>>, "CmdCopyBufferToImage")

\* regionsOk: every region is non-empty and inside both buffers
copyBuffer(srcBuffer, dstBuffer, regionsOk) ==
    Transfer("copyBuffer", <<srcBuffer, dstBuffer, regionsOk>>, regionsOk,
             <<resource(srcBuffer), resource(dstBuffer)>>, "CmdCopyBuffer")

UpdateOffsets ==
    IF scen = "track" THEN {0, 2} ELSE {0}
UpdateSizes ==
    IF scen = "track" THEN {4, 6, kMaxUpdateSize, kMaxUpdateSize + 4} ELSE {4}

updateBuffer(dstBuffer, dstOffset, dataSize) ==
    Transfer("updateBuffer", <<dstBuffer, dstOffset, dataSize>>,
             dstOffset % 4 = 0 /\ dataSize <= kMaxUpdateSize /\ dataSize % 4 = 0,
             <<resource(dstBuffer)>>, "CmdUpdateBuffer")

clearColorImage(image) ==
    Transfer("clearColorImage", image, TRUE, <<image>>, "CmdClearColorImage")

clearDepthStencilImage(image) ==
    Transfer("clearDepthStencilImage", image, TRUE, <<image>>,
             "CmdClearDepthStencilImage")

resolveImage(srcImage, dstImage) ==
    Transfer("resolveImage", <<srcImage, dstImage>>, TRUE,
             <<srcImage, dstImage>>, "CmdResolveImage")

-----------------------------------------------------------------------------
(* GrVkSecondaryCommandBuffer *)

secondaryBegin(framebuffer, compatibleRenderPass, err) ==
    /\ Live
    /\ kind = "secondary"
    /\ LET arg == <<framebuffer, compatibleRenderPass, err>>
           log == <<Call("BeginCommandBuffer", framebuffer, 0)>>
       IN IF ~fIsActive /\ compatibleRenderPass # nullptr
          THEN IF err = "VK_SUCCESS"
               THEN /\ Accept("begin", arg, log)
                    /\ fActiveRenderPass' = compatibleRenderPass
                    /\ fIsActive' = TRUE
                    /\ UNCHANGED <<cacheVars, trackVars, fNumResets, fenceVars,
                                   semVars, secVars, lifeVars>>
               ELSE \* fActiveRenderPass is stored before the native call
                    /\ lastOp' = [name |-> "begin", arg |-> arg, ret |-> "void"]
                    /\ calls' = log
                    /\ aborted' = TRUE
                    /\ fActiveRenderPass' = compatibleRenderPass
                    /\ UNCHANGED <<fIsActive, cacheVars, trackVars, fNumResets,
                                   fenceVars, semVars, secVars, lifeVars>>
          ELSE Reject("begin", arg)

secondaryEnd(err) ==
    /\ Live
    /\ kind = "secondary"
    /\ IF fIsActive
       THEN IF err = "VK_SUCCESS"
            THEN /\ Accept("end", err, <<Call("EndCommandBuffer", "fCmdBuffer", 0)>>)
                 /\ invalidateState
                 /\ fIsActive' = EndedActive(fIsActive)
                 /\ UNCHANGED <<fActiveRenderPass, trackVars, fNumResets,
                                fenceVars, semVars, secVars, lifeVars>>
            ELSE NativeFailed("end", err,
                              <<Call("EndCommandBuffer", "fCmdBuffer", 0)>>)
       ELSE Reject("end", err)

-----------------------------------------------------------------------------
(* The specification *)

Init ==
    /\ scen \in Profiles
    /\ kind = "none"
    /\ life = "none"
    /\ aborted = FALSE
    /\ fIsActive = FALSE
    /\ fActiveRenderPass = nullptr
    /\ fBoundInputBuffers = [i \in InputSlots |-> VK_NULL_HANDLE]
    /\ fBoundIndexBuffer = VK_NULL_HANDLE
    /\ fCachedViewport = InvalidViewport
    /\ fCachedScissor = InvalidScissor
    /\ fCachedBlendConstant = InvalidBlendConstant
    /\ fTrackedResources = <<>>
    /\ fTrackedRecycledResources = <<>>
    /\ fNumResets = 0
    /\ fSubmitFence = VK_NULL_HANDLE
    /\ fSecondaryCommandBuffers = <<>>
    /\ refCnt = [r \in AllResources |-> 0]
    /\ secRefs = NoSecRefs
    /\ fenceSignaled = FALSE
    /\ gpuBusy = FALSE
    /\ fenceObserved = TRUE
    /\ semSignaled = [s \in Semaphores |-> FALSE]
    /\ semWaited = [s \in Semaphores |-> FALSE]
    /\ touched = NothingTouched
    /\ lastSubmit = [fence |-> VK_NULL_HANDLE, commandBufferCount |-> 0,
                     signal |-> <<>>, wait |-> <<>>]
    /\ lastOp = [name |-> "none", arg |-> <<>>, ret |-> "void"]
    /\ calls = <<>>
    /\ threads = [t \in Threads |-> IdleThread]
    /\ mutexOwner = "none"
    /\ submissions = <<>>

ResourceLists ==
    {<<>>} \cup {<<r>> : r \in ResourceArgs} \cup {<<r, r>> : r \in ResourceArgs}
RecycledLists ==
    {<<>>} \cup {<<r>> : r \in RecycledArgs} \cup {<<r, r>> : r \in RecycledArgs}
Counts == {0, 1}
FramebufferArgs == {nullptr, "fb1"}

DoCreate ==
    \E k \in {"primary", "secondary"}, err \in NativeResults : Create(k, err)
DoPipelineBarrier ==
    /\ Drives("pass")
    /\ \E byRegion \in BOOLEAN, t \in BarrierTypes : pipelineBarrier(byRegion, t)
DoBindInputBuffer ==
    /\ Drives("bind")
    /\ \E binding \in BindingArgs, b \in BufferArgs : bindInputBuffer(binding, b)
DoBindIndexBuffer ==
    /\ Drives("bind")
    /\ \E b \in BufferArgs : bindIndexBuffer(b)
DoClearAttachments ==
    /\ Drives("pass")
    /\ \E na \in Counts, nr \in Counts, ok \in BOOLEAN : clearAttachments(na, nr, ok)
DoBindDescriptorSetsFromState ==
    /\ Drives("track")
    /\ bindDescriptorSetsFromState("pipelineState")
DoBindDescriptorSets ==
    /\ Drives("track")
    /\ \E rec \in RecycledLists, res \in ResourceLists : bindDescriptorSets(rec, res)
DoBindPipeline ==
    /\ Drives("pipeline")
    /\ \E p \in ResourceArgs : bindPipeline(p)
DoDrawIndexed ==
    /\ Drives("pass")
    /\ drawIndexed(1)
DoDraw ==
    /\ Drives("pass")
    /\ draw(1)
DoSetViewport ==
    /\ Drives("dyn")
    /\ \E n \in {1, 2}, v \in ViewportArgs : setViewport(n, v)
DoSetScissor ==
    /\ Drives("dyn")
    /\ \E n \in {1, 2}, sc \in ScissorArgs : setScissor(n, sc)
DoSetBlendConstants ==
    /\ Drives("dyn")
    /\ \E c \in BlendArgs : setBlendConstants(c)
DoBegin ==
    \E err \in NativeResults : begin(err)
DoEnd ==
    \E err \in NativeResults : end(err)
DoBeginRenderPass ==
    /\ Drives("nest")
    /\ \E rp \in RenderPassArgs, t \in TargetArgs, f \in BOOLEAN : beginRenderPass(rp, t, f)
DoExecuteCommands ==
    /\ Drives("nest")
    /\ \E sec \in SecondaryArgs, p \in BOOLEAN : executeCommands(sec, p)
DoSubmitToQueue ==
    /\ Drives("submit")
    /\ \E sync \in SyncPolicies, sig \in SemaphoreLists, wait \in SemaphoreLists,
          ce \in NativeResults, we \in WaitResults :
           submitToQueue(sync, sig, wait, ce, we)
DoFinished ==
    /\ Drives("submit")
    /\ \E err \in FenceStatuses : finished(err)
DoCopyImage ==
    /\ Drives("track")
    /\ \E a \in ResourceArgs, b \in ResourceArgs : copyImage(a, b)
DoBlitImage ==
    /\ Drives("track")
    /\ \E a \in ResourceArgs, b \in ResourceArgs : blitImage(a, b)
DoBlitImageOfImages ==
    /\ Drives("track")
    /\ \E a \in ResourceArgs, b \in ResourceArgs : blitImageOfImages(a, b)
DoCopyImageToBuffer ==
    /\ Drives("track")
    /\ \E a \in ResourceArgs, b \in BufferArgs \ {"bufNull"} : copyImageToBuffer(a, b)
DoCopyBufferToImage ==
    /\ Drives("track")
    /\ \E a \in BufferArgs \ {"bufNull"}, b \in ResourceArgs : copyBufferToImage(a, b)
DoCopyBuffer ==
    /\ Drives("track")
    /\ \E a \in BufferArgs \ {"bufNull"}, b \in BufferArgs \ {"bufNull"}, ok \in BOOLEAN :
           copyBuffer(a, b, ok)
DoUpdateBuffer ==
    /\ Drives("track")
    /\ \E b \in BufferArgs \ {"bufNull"}, off \in UpdateOffsets, size \in UpdateSizes :
           updateBuffer(b, off, size)
DoClearColorImage ==
    /\ Drives("track")
    /\ \E a \in ResourceArgs : clearColorImage(a)
DoClearDepthStencilImage ==
    /\ Drives("track")
    /\ \E a \in ResourceArgs : clearDepthStencilImage(a)
DoResolveImage ==
    /\ Drives("track")
    /\ \E a \in ResourceArgs, b \in ResourceArgs : resolveImage(a, b)
DoSecondaryBegin ==
    \E fb \in FramebufferArgs, rp \in RenderPassArgs \cup {nullptr},
       err \in NativeResults : secondaryBegin(fb, rp, err)
DoSecondaryEnd ==
    \E err \in NativeResults : secondaryEnd(err)

DoEndRenderPass ==
    /\ Drives("nest")
    /\ endRenderPass
DoDeviceSignalsFence ==
    /\ Drives("submit")
    /\ DeviceSignalsFence

Record ==
    \/ DoPipelineBarrier
    \/ DoBindInputBuffer
    \/ DoBindIndexBuffer
    \/ DoClearAttachments
    \/ DoBindDescriptorSetsFromState
    \/ DoBindDescriptorSets
    \/ DoBindPipeline
    \/ DoDrawIndexed
    \/ DoDraw
    \/ DoSetViewport
    \/ DoSetScissor
    \/ DoSetBlendConstants
    \/ DoBeginRenderPass
    \/ DoEndRenderPass
    \/ DoExecuteCommands
    \/ DoCopyImage
    \/ DoBlitImage
    \/ DoBlitImageOfImages
    \/ DoCopyImageToBuffer
    \/ DoCopyBufferToImage
    \/ DoCopyBuffer
    \/ DoUpdateBuffer
    \/ DoClearColorImage
    \/ DoClearDepthStencilImage
    \/ DoResolveImage

Next ==
    \/ DoCreate
    \/ DoBegin
    \/ DoEnd
    \/ DoSecondaryBegin
    \/ DoSecondaryEnd
    \/ Record
    \/ DoSubmitToQueue
    \/ DoFinished
    \/ DoDeviceSignalsFence
    \/ reset
    \/ freeGPUData
    \/ abandonGPUData

Spec ==
    Init /\ [][Next]_vars

-----------------------------------------------------------------------------
(* The life cycle of section 3: the owner of a primary buffer resets or    *)
(* frees it only once it has seen the last submission complete, by a       *)
(* finished() that returned true or by a synchronous submission.           *)

CallerSawCompletion ==
    fenceObserved

NextLifecycle ==
    \/ DoCreate
    \/ DoBegin
    \/ DoEnd
    \/ DoSecondaryBegin
    \/ DoSecondaryEnd
    \/ Record
    \/ DoSubmitToQueue
    \/ DoFinished
    \/ DoDeviceSignalsFence
    \/ (CallerSawCompletion /\ reset)
    \/ (CallerSawCompletion /\ freeGPUData)
    \/ abandonGPUData

SpecLifecycle ==
    Init /\ [][NextLifecycle]_vars

-----------------------------------------------------------------------------
(* Threads submitting their buffers concurrently *)

InitConcurrent ==
    Init /\ scen = "sems"

NextConcurrent ==
    \E t \in Threads :
        \/ \E sync \in SyncPolicies, sig \in ThreadSignalLists, wait \in ThreadWaitLists :
              enterSubmitToQueue(t, sync, sig, wait)
        \/ AcquireMutex(t)
        \/ filterSignal(t)
        \/ filterWait(t)
        \/ submitNative(t)
        \/ markSignal(t)
        \/ markWait(t)
        \/ ReleaseMutex(t)
        \/ syncQueue(t)

SpecConcurrent ==
    InitConcurrent /\ [][NextConcurrent]_vars

-----------------------------------------------------------------------------
(* Properties *)

\* the step is a call of name that returned normally
Returned(name) ==
    lastOp'.name = name /\ ~aborted'
\* the step is a call that failed a SkASSERT before doing anything
RejectedStep ==
    aborted' /\ calls' = <<>> /\ UNCHANGED bufferVars
\* the step is a call of name that got past its leading asserts
Entered(name) ==
    lastOp'.name = name /\ ~(aborted' /\ calls' = <<>>)

Emitted(log, c) ==
    Cardinality({i \in DOMAIN log : log[i].call = c})
ReleasedBy(log, c, r) ==
    Cardinality({i \in DOMAIN log : log[i].call = c /\ log[i].res = r})

\* C1: a reset unrefs every entry of the tracked list exactly once (an entry
\* per addResource call), recycles every entry of the tracked-recycled list
\* exactly once, leaves both lists empty, and with that has given back every
\* reference the buffer acquired since it was created or last reset.
C1_ResetReleasesEveryEntryOnce ==
    [][Returned("reset") =>
        /\ \A r \in AllResources :
            /\ ReleasedBy(calls', "unref", r) = Count(fTrackedResources, r)
            /\ ReleasedBy(calls', "recycle", r) = Count(fTrackedRecycledResources, r)
            /\ ReleasedBy(calls', "unrefAndAbandon", r) = 0
            /\ refCnt[r] = Count(fTrackedResources, r)
                           + Count(fTrackedRecycledResources, r)
            /\ refCnt'[r] = 0
        /\ Len(fTrackedResources') = 0
        /\ Len(fTrackedRecycledResources') = 0]_vars

\* a reset after begin, record, end that released a resource tracked twice
\* and recycled another
C1_Witness ==
    /\ lastOp.name = "reset"
    /\ ~aborted
    /\ \E r \in Resources : ReleasedBy(calls, "unref", r) = 2
    /\ \E r \in RecycledResources : ReleasedBy(calls, "recycle", r) >= 1
    /\ fTrackedResources = <<>>

RecordingOps ==
    {"pipelineBarrier", "bindInputBuffer", "bindIndexBuffer", "clearAttachments",
     "bindDescriptorSets", "bindPipeline", "draw", "drawIndexed", "setViewport",
     "setScissor", "setBlendConstants", "beginRenderPass", "endRenderPass",
     "executeCommands", "copyImage", "blitImage", "copyImageToBuffer",
     "copyBufferToImage", "copyBuffer", "updateBuffer", "clearColorImage",
     "clearDepthStencilImage", "resolveImage"}

\* C3: every recording operation called on a buffer that is not Active is
\* rejected: it emits no native command and changes no state.
C3_RecordingRequiresActive ==
    [][(lastOp'.name \in RecordingOps /\ ~fIsActive) => RejectedStep]_vars

\* C4: isActive changes only by a begin (false to true) and an end (true to
\* false); begin is entered only when not Active and leaves the buffer
\* Active, end only when Active and leaves it not Active; submitToQueue,
\* reset and freeGPUData are entered only when not Active.
C4_ActiveBetweenBeginAndEnd ==
    [][/\ (fIsActive' # fIsActive) =>
            \/ (lastOp'.name = "begin" /\ ~fIsActive /\ ~aborted')
            \/ (lastOp'.name = "end" /\ fIsActive /\ ~aborted')
       /\ Entered("begin") => ~fIsActive
       /\ Returned("begin") => fIsActive'
       /\ Entered("end") => fIsActive
       /\ Returned("end") => ~fIsActive'
       /\ (\E n \in {"submitToQueue", "reset", "freeGPUData"} : Entered(n))
            => ~fIsActive]_vars

\* a secondary buffer that has been begun and ended
C4_Witness ==
    /\ kind = "secondary"
    /\ lastOp.name = "end"
    /\ ~aborted
    /\ ~fIsActive

BarrierAndTransferOps ==
    {"pipelineBarrier", "copyImage", "blitImage", "copyImageToBuffer",
     "copyBufferToImage", "copyBuffer", "updateBuffer", "clearColorImage",
     "clearDepthStencilImage", "resolveImage"}

\* C5: a pipelineBarrier or a transfer/clear operation called while the
\* open-render-pass reference is set is rejected: no native command, no
\* resource tracked, nothing changed.
C5_NoBarrierOrTransferInRenderPass ==
    [][(lastOp'.name \in BarrierAndTransferOps /\ fActiveRenderPass # nullptr)
       => RejectedStep]_vars

\* a copyImage rejected on an Active buffer inside a render pass
C5_Witness ==
    /\ aborted
    /\ lastOp.name = "copyImage"
    /\ fIsActive
    /\ fActiveRenderPass # nullptr
    /\ calls = <<>>

\* C6 as stated: on every buffer, primary or secondary, the render-pass
\* reference is unset whenever the buffer is not Active.
C6_RenderPassUnsetWhenIdle ==
    (Live /\ ~fIsActive) => fActiveRenderPass = nullptr

\* C6 as amended: on a primary buffer the render-pass reference is set only
\* by beginRenderPass and unset only by endRenderPass, and is unset whenever
\* the buffer is not Active; on a secondary buffer it is set by begin and by
\* nothing else, and end and reset leave it set.
C6_RenderPassReference ==
    [][/\ (fActiveRenderPass' # fActiveRenderPass /\ kind' = "primary") =>
            \/ (Returned("beginRenderPass") /\ fActiveRenderPass = nullptr)
            \/ (Returned("endRenderPass") /\ fActiveRenderPass' = nullptr)
       /\ (kind' = "primary" /\ ~fIsActive') => fActiveRenderPass' = nullptr
       /\ (fActiveRenderPass' # fActiveRenderPass /\ kind' = "secondary") =>
            (lastOp'.name = "begin" /\ fActiveRenderPass' = lastOp'.arg[2])
       /\ (kind = "secondary" /\ lastOp'.name \in {"end", "reset"}) =>
            fActiveRenderPass' = fActiveRenderPass]_vars

\* a secondary buffer that is ended, not Active, and still holds the render
\* pass its begin stored
C6_Witness ==
    /\ kind = "secondary"
    /\ Live
    /\ lastOp.name = "end"
    /\ ~fIsActive
    /\ fActiveRenderPass # nullptr

\* C7: draw, drawIndexed and clearAttachments called on a buffer that is not
\* Active or has no open render pass are rejected, and so is clearAttachments
\* with no attachment or no rectangle; a rejected call emits nothing.
C7_DrawAndClearNeedOpenRenderPass ==
    [][/\ (lastOp'.name \in {"draw", "drawIndexed", "clearAttachments"}
           /\ ~(fIsActive /\ fActiveRenderPass # nullptr)) => RejectedStep
       /\ (lastOp'.name = "clearAttachments"
           /\ ~(lastOp'.arg[1] > 0 /\ lastOp'.arg[2] > 0)) => RejectedStep]_vars

\* a clearAttachments with no attachment rejected inside an open render pass
C7_Witness ==
    /\ aborted
    /\ lastOp.name = "clearAttachments"
    /\ lastOp.arg[1] = 0
    /\ lastOp.arg[2] > 0
    /\ fIsActive
    /\ fActiveRenderPass # nullptr

\* C8: a setViewport (setScissor, setBlendConstants) that returns leaves the
\* cached value equal to its argument and emits its native command once if
\* the cache did not hold that value and not at all if it did; so a call
\* that repeats the value of the call just before it emits nothing.
C8_RepeatedStateIsSetOnce ==
    [][/\ Returned("setViewport") =>
            /\ fCachedViewport' = lastOp'.arg[2]
            /\ Emitted(calls', "CmdSetViewport")
                   = (IF lastOp'.arg[2] = fCachedViewport THEN 0 ELSE 1)
            /\ Len(calls') = Emitted(calls', "CmdSetViewport")
            /\ (lastOp.name = "setViewport" /\ lastOp.arg = lastOp'.arg)
                   => calls' = <<>>
       /\ Returned("setScissor") =>
            /\ fCachedScissor' = lastOp'.arg[2]
            /\ Emitted(calls', "CmdSetScissor")
                   = (IF lastOp'.arg[2] = fCachedScissor THEN 0 ELSE 1)
            /\ Len(calls') = Emitted(calls', "CmdSetScissor")
            /\ (lastOp.name = "setScissor" /\ lastOp.arg = lastOp'.arg)
                   => calls' = <<>>
       /\ Returned("setBlendConstants") =>
            /\ fCachedBlendConstant' = lastOp'.arg
            /\ Emitted(calls', "CmdSetBlendConstants")
                   = (IF lastOp'.arg = fCachedBlendConstant THEN 0 ELSE 1)
            /\ Len(calls') = Emitted(calls', "CmdSetBlendConstants")
            /\ (lastOp.name = "setBlendConstants" /\ lastOp.arg = lastOp'.arg)
                   => calls' = <<>>]_vars

\* a setViewport that repeated a valid value and was skipped
C8_Witness ==
    /\ lastOp.name = "setViewport"
    /\ ~aborted
    /\ fIsActive
    /\ calls = <<>>
    /\ fCachedViewport = lastOp.arg[2]
    /\ lastOp.arg[2][3] > 0

\* C9 as stated: every bindInputBuffer and bindIndexBuffer that returns
\* appends the buffer's resource to the tracked list, whether or not the bind
\* was emitted.
C9_BindTracksOnEveryCall ==
    [][/\ Returned("bindInputBuffer") =>
            fTrackedResources' = Append(fTrackedResources, resource(lastOp'.arg[2]))
       /\ Returned("bindIndexBuffer") =>
            fTrackedResources' = Append(fTrackedResources, resource(lastOp'.arg))]_vars

\* C9 as amended: a bindInputBuffer (bindIndexBuffer) whose buffer differs
\* from the one cached for the slot emits the bind once, caches the buffer
\* and appends its resource once; one whose buffer is the cached one emits
\* nothing and tracks nothing.  So n repeats emit once and track once.
C9_BindTracksWhenEmitted ==
    [][/\ Returned("bindInputBuffer") =>
            LET slot == lastOp'.arg[1]
                b == lastOp'.arg[2]
            IN /\ fBoundInputBuffers'[slot] = buffer(b)
               /\ \A i \in InputSlots \ {slot} :
                    fBoundInputBuffers'[i] = fBoundInputBuffers[i]
               /\ IF buffer(b) # fBoundInputBuffers[slot]
                  THEN /\ CallNames(calls') = <<"CmdBindVertexBuffers">>
                       /\ fTrackedResources' = Append(fTrackedResources, resource(b))
                  ELSE /\ calls' = <<>>
                       /\ fTrackedResources' = fTrackedResources
       /\ Returned("bindIndexBuffer") =>
            LET b == lastOp'.arg
            IN /\ fBoundIndexBuffer' = buffer(b)
               /\ IF buffer(b) # fBoundIndexBuffer
                  THEN /\ CallNames(calls') = <<"CmdBindIndexBuffer">>
                       /\ fTrackedResources' = Append(fTrackedResources, resource(b))
                  ELSE /\ calls' = <<>>
                       /\ fTrackedResources' = fTrackedResources]_vars

\* a repeated bindInputBuffer that was skipped, its resource tracked once
C9_Witness ==
    /\ lastOp.name = "bindInputBuffer"
    /\ ~aborted
    /\ calls = <<>>
    /\ fBoundInputBuffers[lastOp.arg[1]] = buffer(lastOp.arg[2])
    /\ Count(fTrackedResources, resource(lastOp.arg[2])) = 1

\* C10: the first setViewport accepted after an invalidateState(), if its
\* viewport is valid (width > 0), emits the native set-viewport command.
C10_ViewportAfterInvalidateEmits ==
    [][(/\ Returned("setViewport")
        /\ "viewport" \notin touched.state
        /\ lastOp'.arg[2][3] > 0)
       => CallNames(calls') = <<"CmdSetViewport">>]_vars

\* after a reset, a setViewport with a valid viewport whose other fields are
\* all zero, as the unset value's are, was emitted
C10_Witness ==
    /\ lastOp.name = "setViewport"
    /\ ~aborted
    /\ fNumResets > 0
    /\ lastOp.arg[2] = <<0, 0, 1, 0, 0, 0>>
    /\ CallNames(calls) = <<"CmdSetViewport">>
    /\ touched.state = {"viewport"}

\* C11: the first setScissor and the first setBlendConstants accepted after
\* an invalidateState() emit their native command whatever value they are
\* given, and so do the first bindInputBuffer on a slot and the first
\* bindIndexBuffer.
C11_FirstCallAfterInvalidateEmits ==
    [][/\ (Returned("setScissor") /\ "scissor" \notin touched.state)
            => CallNames(calls') = <<"CmdSetScissor">>
       /\ (Returned("setBlendConstants") /\ "blend" \notin touched.state)
            => CallNames(calls') = <<"CmdSetBlendConstants">>
       /\ (Returned("bindInputBuffer") /\ lastOp'.arg[1] \notin touched.input)
            => CallNames(calls') = <<"CmdBindVertexBuffers">>
       /\ (Returned("bindIndexBuffer") /\ "index" \notin touched.state)
            => CallNames(calls') = <<"CmdBindIndexBuffer">>]_vars

\* C12: an executeCommands that returns leaves every cached entry of the
\* primary unset, whatever was cached and whatever the secondary is; and for
\* every entry a call had set before it, the value cached before differs
\* from the cache after, so that a set or bind call repeating that value is
\* emitted again (setViewport, setScissor, setBlendConstants and the binds
\* emit exactly when their argument differs from the cache).
C12_ExecuteCommandsInvalidatesCache ==
    [][Returned("executeCommands") =>
        /\ fBoundInputBuffers' = [i \in InputSlots |-> VK_NULL_HANDLE]
        /\ fBoundIndexBuffer' = VK_NULL_HANDLE
        /\ fCachedViewport' = InvalidViewport
        /\ fCachedScissor' = InvalidScissor
        /\ fCachedBlendConstant' = InvalidBlendConstant
        /\ \A i \in touched.input : fBoundInputBuffers[i] # fBoundInputBuffers'[i]
        /\ "index" \in touched.state => fBoundIndexBuffer # fBoundIndexBuffer'
        /\ "viewport" \in touched.state
              => memcmp(fCachedViewport, fCachedViewport') # 0
        /\ "scissor" \in touched.state
              => memcmp(fCachedScissor, fCachedScissor') # 0
        /\ "blend" \in touched.state
              => memcmp(fCachedBlendConstant, fCachedBlendConstant') # 0]_vars

\* C13: a submitToQueue never issues more than one native submission, and
\* one that returns issued exactly one, with this one command buffer and the
\* buffer's fence; when the signal and the wait list are both empty, that
\* submission carries no semaphore and the semaphore mutex is not acquired.
C13_OneSubmissionPerSubmit ==
    [][/\ Entered("submitToQueue") => Emitted(calls', "QueueSubmit") <= 1
       /\ Returned("submitToQueue") =>
            /\ Emitted(calls', "QueueSubmit") = 1
            /\ \A i \in DOMAIN calls' :
                 calls'[i].call = "QueueSubmit"
                    => calls'[i].res = lastSubmit'.fence /\ calls'[i].n = 1
            /\ lastSubmit'.commandBufferCount = 1
            /\ lastSubmit'.fence # VK_NULL_HANDLE
            /\ lastOp'.arg[1] = "kSkip_SyncQueue" => fSubmitFence' = lastSubmit'.fence
            /\ (lastOp'.arg[2] = <<>> /\ lastOp'.arg[3] = <<>>) =>
                 /\ lastSubmit'.signal = <<>>
                 /\ lastSubmit'.wait = <<>>
                 /\ Emitted(calls', "AcquireMutex") = 0]_vars

\* a second submission of a buffer, with no semaphores and no wait: the
\* fence reset, one submission, no mutex
C13_Witness ==
    /\ lastOp.name = "submitToQueue"
    /\ ~aborted
    /\ lastOp.arg = <<"kSkip_SyncQueue", <<>>, <<>>>>
    /\ CallNames(calls) = <<"ResetFences", "QueueSubmit">>
    /\ lastSubmit.signal = <<>>
    /\ lastSubmit.wait = <<>>

C15_OneFullResetInKPlusOne ==
    [][/\ fNumResets' # fNumResets => Returned("reset")
       /\ fNumResets' \in 0 .. kNumRewindResetsBeforeFullReset
       /\ Returned("Create") => fNumResets' = 0
       /\ Returned("reset") =>
            IF fNumResets = kNumRewindResetsBeforeFullReset
            THEN /\ Emitted(calls', "SkTDArray::reset") = 2
                 /\ Emitted(calls', "SkTDArray::setReserve") = 2
                 /\ Emitted(calls', "SkTDArray::rewind") = 0
                 /\ fNumResets' = 0
            ELSE /\ Emitted(calls', "SkTDArray::reset") = 0
                 /\ Emitted(calls', "SkTDArray::setReserve") = 0
                 /\ Emitted(calls', "SkTDArray::rewind") = 2
                 /\ fNumResets' = fNumResets + 1]_vars

\* the reset that reallocated the lists and set the counter back to 0
C15_Witness ==
    /\ lastOp.name = "reset"
    /\ ~aborted
    /\ fNumResets = 0
    /\ Emitted(calls, "SkTDArray::setReserve") = 2
    /\ Emitted(calls, "SkTDArray::rewind") = 0

\* C16: finished() changes nothing in the buffer and never waits for the
\* fence; without a fence it returns true without asking the device; with a
\* fence it asks the device once and returns true on VK_SUCCESS (the fence
\* is signaled), false on VK_NOT_READY, and ends the process on any other
\* status.
C16_FinishedPollsOnce ==
    [][lastOp'.name = "finished" =>
        /\ UNCHANGED <<flagVars, cacheVars, trackVars, fNumResets, fSubmitFence,
                       fenceSignaled, gpuBusy, semVars, secVars, lifeVars>>
        /\ Emitted(calls', "WaitForFences") = 0
        /\ IF fSubmitFence = VK_NULL_HANDLE
           THEN /\ lastOp'.ret = "true"
                /\ calls' = <<>>
                /\ ~aborted'
           ELSE /\ calls' = <<Call("GetFenceStatus", fSubmitFence, 0)>>
                /\ lastOp'.arg = "VK_SUCCESS"
                      => (lastOp'.ret = "true" /\ ~aborted' /\ fenceSignaled)
                /\ lastOp'.arg = "VK_NOT_READY"
                      => (lastOp'.ret = "false" /\ ~aborted' /\ ~fenceSignaled)
                /\ lastOp'.arg \notin {"VK_SUCCESS", "VK_NOT_READY"}
                      => aborted']_vars

\* a poll of a submitted buffer whose fence the device has not signaled yet
C16_Witness ==
    /\ lastOp.name = "finished"
    /\ lastOp.ret = "false"
    /\ ~aborted
    /\ fSubmitFence # VK_NULL_HANDLE
    /\ ~fenceSignaled
    /\ gpuBusy

\* C17 as stated: a submitToQueue creates a fence only if the buffer was
\* never submitted before, every later one resets the fence instead, and
\* nothing but freeGPUData destroys a fence.
C17_FenceCreatedOnce ==
    [][/\ (lastOp'.name = "submitToQueue" /\ Emitted(calls', "CreateFence") > 0)
            => lastSubmit.fence = VK_NULL_HANDLE
       /\ (Entered("submitToQueue") /\ lastSubmit.fence # VK_NULL_HANDLE)
            => Emitted(calls', "ResetFences") = 1
       /\ Emitted(calls', "DestroyFence") > 0 => lastOp'.name = "freeGPUData"]_vars

\* C17 as amended: a submitToQueue that finds no fence creates one, and one
\* that finds a fence resets that fence and creates none; a submitToQueue
\* with the synchronous-wait policy destroys the fence after the wait and
\* leaves the buffer without one, and one without it leaves the buffer
\* holding the fence; otherwise only freeGPUData destroys a fence, and only
\* submitToQueue changes the handle.
C17_FenceLifecycle ==
    [][/\ Entered("submitToQueue") =>
            IF fSubmitFence = VK_NULL_HANDLE
            THEN /\ Emitted(calls', "CreateFence") = 1
                 /\ Emitted(calls', "ResetFences") = 0
            ELSE /\ Emitted(calls', "CreateFence") = 0
                 /\ Emitted(calls', "ResetFences") = 1
                 /\ calls'[1] = Call("ResetFences", fSubmitFence, 1)
       /\ Returned("submitToQueue") =>
            IF lastOp'.arg[1] = "kForce_SyncQueue"
            THEN /\ Emitted(calls', "DestroyFence") = 1
                 /\ fSubmitFence' = VK_NULL_HANDLE
            ELSE /\ Emitted(calls', "DestroyFence") = 0
                 /\ fSubmitFence' # VK_NULL_HANDLE
       /\ Emitted(calls', "DestroyFence") > 0
            => lastOp'.name \in {"submitToQueue", "freeGPUData"}
       /\ (Returned("freeGPUData") /\ kind = "primary") =>
            Emitted(calls', "DestroyFence")
               = (IF fSubmitFence # VK_NULL_HANDLE THEN 1 ELSE 0)
       /\ fSubmitFence' # fSubmitFence => lastOp'.name = "submitToQueue"]_vars

\* a submission with the synchronous-wait policy has returned: the buffer
\* has been submitted, its fence is destroyed and the handle cleared
C17_Witness ==
    /\ lastOp.name = "submitToQueue"
    /\ ~aborted
    /\ lastOp.arg[1] = "kForce_SyncQueue"
    /\ lastSubmit.fence # VK_NULL_HANDLE
    /\ fSubmitFence = VK_NULL_HANDLE
    /\ Emitted(calls, "DestroyFence") = 1

\* the statements between AcquireMutex and ReleaseMutex
InSection(t) ==
    threads[t].pc \in {"filterSignal", "filterWait", "submit", "markSignal",
                       "markWait", "ReleaseMutex"}
    /\ ~NoSemaphores(Len(threads[t].signalSemaphores), Len(threads[t].waitSemaphores))
\* the returned native submissions that carried s as a signal (wait) semaphore
SignaledBy(s) ==
    {k \in DOMAIN submissions : s \in Range(submissions[k].signal)}
WaitedBy(s) ==
    {k \in DOMAIN submissions : s \in Range(submissions[k].wait)}
AllReturned ==
    \A t \in Threads : threads[t].pc = "idle"

\* C18: at any time at most one thread is between AcquireMutex and
\* ReleaseMutex, and it holds the mutex; no semaphore is passed to the native
\* submit as a signal (wait) semaphore by more than one submission; and once
\* every call has returned, a semaphore that any of them listed as a signal
\* (wait) semaphore was passed by exactly one.
C18_OneThreadInSectionOneSubmitter ==
    /\ Cardinality({t \in Threads : InSection(t)}) <= 1
    /\ \A t \in Threads : InSection(t) => mutexOwner = t
    /\ \A s \in Semaphores :
         /\ Cardinality(SignaledBy(s)) <= 1
         /\ Cardinality(WaitedBy(s)) <= 1
         /\ (AllReturned /\ \E k \in DOMAIN submissions :
                               s \in Range(submissions[k].signalIn))
               => Cardinality(SignaledBy(s)) = 1
         /\ (AllReturned /\ \E k \in DOMAIN submissions :
                               s \in Range(submissions[k].waitIn))
               => Cardinality(WaitedBy(s)) = 1

\* two threads have each submitted with sem1 in the signal list, and both
\* calls have returned
C18_Witness ==
    /\ AllReturned
    /\ Len(submissions) = 2
    /\ submissions[1].thread # submissions[2].thread
    /\ \A k \in DOMAIN submissions : "sem1" \in Range(submissions[k].signalIn)
    /\ Cardinality(SignaledBy("sem1")) = 1

\* C19: a semaphore marked signaled (waited) was a signal (wait) semaphore
\* of a native submission that has returned.
C19_MarkedOnlyAfterSubmission ==
    \A s \in Semaphores :
        /\ semSignaled[s] => SignaledBy(s) # {}
        /\ semWaited[s] => WaitedBy(s) # {}

\* a thread in the middle of marking: its submission has returned, sem1 is
\* marked, sem2 not yet, while another thread waits for the mutex
C19_Witness ==
    \E t \in Threads, u \in Threads :
        /\ threads[t].pc = "markSignal"
        /\ threads[t].i = 2
        /\ threads[t].signalSemaphores = <<"sem1", "sem2">>
        /\ semSignaled["sem1"]
        /\ ~semSignaled["sem2"]
        /\ threads[u].pc = "AcquireMutex"

\* C20: the references a buffer holds are, per resource, the entries of its
\* two tracking lists: every addResource adds one entry and one reference,
\* and a reset gives every entry's reference back and empties the lists,
\* so that no entry it released is left for a later reset or freeGPUData;
\* freeGPUData unrefs every entry of the tracked list once and recycles
\* every entry of the recycled list once, after which the buffer holds no
\* reference; and no reference is ever given back twice.
C20_EveryEntryReleasedOnceInTotal ==
    [][/\ \A r \in AllResources : refCnt'[r] >= 0
       /\ (life' = "live" /\ ~aborted') =>
            \A r \in AllResources :
               refCnt'[r] = Count(fTrackedResources', r)
                            + Count(fTrackedRecycledResources', r)
       /\ Returned("freeGPUData") =>
            \A r \in AllResources :
               /\ ReleasedBy(calls', "unref", r) = Count(fTrackedResources, r)
               /\ ReleasedBy(calls', "recycle", r)
                     = Count(fTrackedRecycledResources, r)
               /\ ReleasedBy(calls', "unrefAndAbandon", r) = 0
               /\ refCnt'[r] = 0]_vars

\* freeGPUData of a buffer that had been reset and had tracked and recycled
\* resources again after the reset
C20_Witness ==
    /\ lastOp.name = "freeGPUData"
    /\ ~aborted
    /\ life = "freed"
    /\ fNumResets > 0
    /\ \E r \in Resources : ReleasedBy(calls, "unref", r) >= 1
    /\ \E r \in RecycledResources : ReleasedBy(calls, "recycle", r) >= 1

C22_AbandonReleasesWithoutDevice ==
    [][Returned("abandonGPUData") =>
         /\ \A r \in AllResources :
              /\ ReleasedBy(calls', "unrefAndAbandon", r)
                   = Count(fTrackedResources, r) + Count(fTrackedRecycledResources, r)
              /\ refCnt'[r] = refCnt[r] - Count(fTrackedResources, r)
                                        - Count(fTrackedRecycledResources, r)
         /\ \A i \in DOMAIN calls' : calls'[i].call = "unrefAndAbandon"
         /\ Len(calls') = Len(fTrackedResources) + Len(fTrackedRecycledResources)
         /\ UNCHANGED <<flagVars, cacheVars, fenceVars, secVars>>]_vars
C22_Witness ==
    /\ lastOp.name = "abandonGPUData"
    /\ ~aborted
    /\ fTrackedResources # <<>>
    /\ fTrackedRecycledResources # <<>>
    /\ fIsActive
    /\ Len(calls) = Len(fTrackedResources) + Len(fTrackedRecycledResources)

\* the storage calls of a reset that reallocated, and of one that rewound
Reallocated(log) ==
    /\ Emitted(log, "SkTDArray::reset") = 2
    /\ Emitted(log, "SkTDArray::setReserve") = 2
    /\ Emitted(log, "SkTDArray::rewind") = 0
Rewound(log) ==
    /\ Emitted(log, "SkTDArray::reset") = 0
    /\ Emitted(log, "SkTDArray::setReserve") = 0
    /\ Emitted(log, "SkTDArray::rewind") = 2

\* C23 as stated: the tracking lists are reallocated on every K-th reset
\* (K = kNumRewindResetsBeforeFullReset): the reset that is the K-th since
\* the buffer was created or since the last reallocation, the one that finds
\* K-1 counted resets, reallocates, and every other reset only rewinds.
C23_FullResetEveryKth ==
    [][Returned("reset") =>
         IF fNumResets = kNumRewindResetsBeforeFullReset - 1
         THEN Reallocated(calls')
         ELSE Rewound(calls')]_vars

\* C23 amended: the tracking lists are reallocated on every (K+1)-th reset:
\* a reset that finds fewer than K resets counted since the buffer was
\* created or last reallocated, the K-th one included, only rewinds, and the
\* one after K rewinding resets reallocates and starts the count again.
C23_FullResetEveryKPlusOneth ==
    [][Returned("reset") =>
         /\ fNumResets < kNumRewindResetsBeforeFullReset
              => (Rewound(calls') /\ fNumResets' = fNumResets + 1)
         /\ fNumResets = kNumRewindResetsBeforeFullReset
              => (Reallocated(calls') /\ fNumResets' = 0)
         /\ fNumResets <= kNumRewindResetsBeforeFullReset
         /\ fTrackedResources' = <<>> /\ fTrackedRecycledResources' = <<>>]_vars
\* the K-th reset of a run has only rewound
C23_Witness ==
    /\ lastOp.name = "reset"
    /\ ~aborted
    /\ fNumResets = kNumRewindResetsBeforeFullReset
    /\ Rewound(calls)

\* C24: a reset of a primary buffer hands every executed secondary buffer to
\* recycleSecondaryCommandBuffer once per entry of the executed list (an
\* entry per executeCommands since the last reset, a secondary executed twice
\* twice) and leaves the list empty and no secondary referenced; the hand-backs
\* come after every release of a tracked resource and after the one native
\* ResetCommandBuffer, and the cached state is unset when reset returns.
C24_ResetRecyclesExecutedSecondaries ==
    [][(Returned("reset") /\ kind = "primary") =>
         LET log == calls'
             At(c) == {i \in DOMAIN log : log[i].call = c}
             Releases == At("unref") \cup At("recycle")
         IN /\ \A s \in SecondaryIds :
                 /\ ReleasedBy(log, "recycleSecondaryCommandBuffer", s)
                      = Count(fSecondaryCommandBuffers, s)
                 /\ secRefs[s] = Count(fSecondaryCommandBuffers, s)
                 /\ secRefs'[s] = 0
            /\ fSecondaryCommandBuffers' = <<>>
            /\ Cardinality(At("ResetCommandBuffer")) = 1
            /\ \A n \in At("ResetCommandBuffer") :
                 /\ \A i \in Releases : i < n
                 /\ \A j \in At("recycleSecondaryCommandBuffer") : n < j
            /\ fBoundInputBuffers' = [i \in InputSlots |-> VK_NULL_HANDLE]
            /\ fBoundIndexBuffer' = VK_NULL_HANDLE
            /\ fCachedViewport' = InvalidViewport
            /\ fCachedScissor' = InvalidScissor
            /\ fCachedBlendConstant' = InvalidBlendConstant]_vars
\* a reset that released a tracked resource and handed back a secondary that
\* had been executed twice
C24_Witness ==
    /\ lastOp.name = "reset"
    /\ ~aborted
    /\ kind = "primary"
    /\ fSecondaryCommandBuffers = <<>>
    /\ Emitted(calls, "unref") > 0
    /\ \E s \in SecondaryIds : ReleasedBy(calls, "recycleSecondaryCommandBuffer", s) = 2

\* C25: when freeGPUData or abandonGPUData returns on a primary buffer, every
\* reference executeCommands took on a secondary buffer has been given back:
\* the teardown hands back or releases each entry of the executed list, and
\* the torn-down primary references no secondary.
C25_TeardownBalancesSecondaryRefs ==
    [][((Returned("freeGPUData") \/ Returned("abandonGPUData")) /\ kind = "primary") =>
         \A s \in SecondaryIds :
            /\ secRefs'[s] = 0
            /\ Released(calls', s)
                 + ReleasedBy(calls', "recycleSecondaryCommandBuffer", s)
               = Count(fSecondaryCommandBuffers, s)]_vars

\* every cached entry holds the value invalidateState() writes
CacheUnset ==
    /\ fBoundInputBuffers = [i \in InputSlots |-> VK_NULL_HANDLE]
    /\ fBoundIndexBuffer = VK_NULL_HANDLE
    /\ fCachedViewport = InvalidViewport
    /\ fCachedScissor = InvalidScissor
    /\ fCachedBlendConstant = InvalidBlendConstant
CacheInvalidators == {"end", "reset", "executeCommands"}
CacheSetters ==
    {"bindInputBuffer", "bindIndexBuffer", "setViewport", "setScissor",
     "setBlendConstants"}

\* C26: an end, reset or executeCommands that returns leaves every cached
\* entry unset; a set or bind call changes no cached entry but its own (a
\* bindInputBuffer only the slot it names); every other operation on the
\* buffer leaves the cached state as it was.  A buffer is created Idle with its
\* cache unset, a buffer that becomes Idle has its cache unset, and an Idle
\* buffer with its cache unset keeps it unset as long as no bind is called on
\* it while Idle (a recording call on an Idle buffer breaks that call's
\* precondition): so an Idle buffer has all cached state unset.
C26_CacheInvalidatedAtEndResetExecute ==
    [][/\ (\E n \in CacheInvalidators : Returned(n)) => CacheUnset'
       /\ lastOp'.name = "bindInputBuffer" =>
            /\ UNCHANGED <<fBoundIndexBuffer, fCachedViewport, fCachedScissor,
                           fCachedBlendConstant>>
            /\ \A i \in InputSlots :
                 i # lastOp'.arg[1] => fBoundInputBuffers'[i] = fBoundInputBuffers[i]
       /\ lastOp'.name = "bindIndexBuffer" =>
            UNCHANGED <<fBoundInputBuffers, fCachedViewport, fCachedScissor,
                        fCachedBlendConstant>>
       /\ lastOp'.name = "setViewport" =>
            UNCHANGED <<fBoundInputBuffers, fBoundIndexBuffer, fCachedScissor,
                        fCachedBlendConstant>>
       /\ lastOp'.name = "setScissor" =>
            UNCHANGED <<fBoundInputBuffers, fBoundIndexBuffer, fCachedViewport,
                        fCachedBlendConstant>>
       /\ lastOp'.name = "setBlendConstants" =>
            UNCHANGED <<fBoundInputBuffers, fBoundIndexBuffer, fCachedViewport,
                        fCachedScissor>>
       /\ lastOp'.name \notin (CacheInvalidators \cup CacheSetters \cup {"Create"}) =>
            UNCHANGED <<fBoundInputBuffers, fBoundIndexBuffer, fCachedViewport,
                        fCachedScissor, fCachedBlendConstant>>
       /\ Returned("Create") /\ life' = "live" => (~fIsActive' /\ CacheUnset')
       /\ (fIsActive /\ ~fIsActive') => CacheUnset'
       /\ (~fIsActive /\ ~fIsActive' /\ CacheUnset
           /\ lastOp'.name \notin {"bindInputBuffer", "bindIndexBuffer"}) => CacheUnset']_vars
\* an end, after a bind that cached and tracked a buffer, has left the buffer
\* Idle with nothing cached
C26_Witness ==
    /\ lastOp.name = "end"
    /\ ~aborted
    /\ ~fIsActive
    /\ CacheUnset
    /\ \E b \in BufferArgs : Count(fTrackedResources, resource(b)) > 0
    /\ Emitted(calls, "EndCommandBuffer") = 1

\* C27: a beginRenderPass that is accepted makes one native CmdBeginRenderPass
\* whose clear-value count is 2 for a render pass with a stencil attachment
\* and a non-zero clear-value count, 0 for one with a stencil attachment and
\* a zero count, and the render pass's own count for one without a stencil
\* attachment; its subpass contents are the secondary-command-buffer contents
\* exactly when forSecondaryCB is true and the inline contents otherwise.
C27_BeginRenderPassClearCountAndContents ==
    [][Returned("beginRenderPass") =>
         LET rp == lastOp'.arg[1]
             forSecondaryCB == lastOp'.arg[3]
         IN /\ Len(calls') = 1
            /\ calls'[1].call = "CmdBeginRenderPass"
            /\ (stencilAttachmentIndex(rp) /\ clearValueCount(rp) # 0)
                 => calls'[1].n = 2
            /\ (stencilAttachmentIndex(rp) /\ clearValueCount(rp) = 0)
                 => calls'[1].n = 0
            /\ ~stencilAttachmentIndex(rp) => calls'[1].n = clearValueCount(rp)
            /\ forSecondaryCB
                 <=> calls'[1].res = "VK_SUBPASS_CONTENTS_SECONDARY_COMMAND_BUFFERS"
            /\ ~forSecondaryCB <=> calls'[1].res = "VK_SUBPASS_CONTENTS_INLINE"]_vars
\* a render pass with a stencil attachment and one clear value was begun for
\* secondary buffers: two clear values passed
C27_Witness ==
    /\ lastOp.name = "beginRenderPass"
    /\ ~aborted
    /\ stencilAttachmentIndex(lastOp.arg[1])
    /\ clearValueCount(lastOp.arg[1]) = 1
    /\ lastOp.arg[3]
    /\ calls = <<Call("CmdBeginRenderPass",
                      "VK_SUBPASS_CONTENTS_SECONDARY_COMMAND_BUFFERS", 2)>>

\* C28: an executeCommands is accepted only when the primary is Active with
\* an open render pass and the secondary is not Active and holds a stored
\* render pass compatible with the open one; accepted, it emits one native
\* CmdExecuteCommands, appends the secondary to the executed list, takes one
\* reference on it and leaves the primary's Active flag and open render pass
\* as they were; called with a secondary that was never begun (no stored
\* render pass) it is rejected.
C28_ExecuteCommandsPreconditions ==
    [][lastOp'.name = "executeCommands" =>
         LET secondary == lastOp'.arg
         IN /\ ~aborted' =>
                 /\ fIsActive
                 /\ fActiveRenderPass # nullptr
                 /\ ~secondary.fIsActive
                 /\ secondary.fActiveRenderPass # nullptr
                 /\ isCompatible(fActiveRenderPass, secondary.fActiveRenderPass)
                 /\ calls' = <<Call("CmdExecuteCommands", secondary.id, 1)>>
                 /\ fSecondaryCommandBuffers'
                      = Append(fSecondaryCommandBuffers, secondary.id)
                 /\ secRefs'[secondary.id] = secRefs[secondary.id] + 1
                 /\ UNCHANGED flagVars
            /\ secondary.fActiveRenderPass = nullptr => RejectedStep]_vars

\* the step is a submitToQueue with the synchronous-wait policy that got to
\* its wait
SyncWaited ==
    /\ lastOp'.name = "submitToQueue"
    /\ lastOp'.arg[1] = "kForce_SyncQueue"
    /\ Emitted(calls', "WaitForFences") > 0

\* C29: a submitToQueue with the synchronous-wait policy that submits waits
\* on the fence, after the native submission, with one WaitForFences that is
\* never repeated; it returns only if the device has signaled the fence, and
\* then the fence is destroyed and the buffer holds none; on any other
\* result of the wait, VK_TIMEOUT included, the process ends there, the fence
\* not destroyed.  A finished() called right after the call returned answers
\* true and makes no native call.
C29_SyncSubmitReturnsAfterFenceSignaled ==
    [][/\ (lastOp'.name = "submitToQueue" /\ lastOp'.arg[1] = "kForce_SyncQueue"
           /\ Emitted(calls', "QueueSubmit") > 0) => SyncWaited
       /\ SyncWaited =>
            /\ Emitted(calls', "WaitForFences") = 1
            /\ \A i, j \in DOMAIN calls' :
                 (calls'[i].call = "QueueSubmit" /\ calls'[j].call = "WaitForFences")
                    => i < j
            /\ ~aborted' =>
                 /\ fenceSignaled'
                 /\ ~gpuBusy'
                 /\ fSubmitFence' = VK_NULL_HANDLE
                 /\ calls'[Len(calls')] = Call("DestroyFence", "fence", 0)
            /\ aborted' =>
                 /\ ~fenceSignaled'
                 /\ Emitted(calls', "DestroyFence") = 0
                 /\ calls'[Len(calls')].call = "WaitForFences"
       /\ (/\ lastOp.name = "submitToQueue"
           /\ lastOp.arg[1] = "kForce_SyncQueue"
           /\ ~aborted
           /\ lastOp'.name = "finished") =>
            /\ lastOp'.ret = "true"
            /\ calls' = <<>>
            /\ ~aborted']_vars
\* finished() has answered true, with no native call, on a buffer whose
\* synchronous submission has returned and destroyed the fence
C29_Witness ==
    /\ lastOp.name = "finished"
    /\ lastOp.ret = "true"
    /\ calls = <<>>
    /\ fSubmitFence = VK_NULL_HANDLE
    /\ fenceSignaled
    /\ lastSubmit.commandBufferCount = 1

\* the recording state of a primary buffer
RecordingState ==
    CASE ~fIsActive /\ fActiveRenderPass = nullptr -> "Idle"
      [] fIsActive /\ fActiveRenderPass = nullptr -> "Active"
      [] fIsActive /\ fActiveRenderPass # nullptr -> "RenderPassOpen"
      [] OTHER -> "IdleWithOpenRenderPass"

\* C30: a primary buffer is always Idle, Active or RenderPassOpen, never not
\* Active with a render pass open; it is created Idle, and its state changes
\* only from Idle to Active by begin, from Active to RenderPassOpen by
\* beginRenderPass, from RenderPassOpen to Active by endRenderPass and from
\* Active to Idle by end; beginRenderPass while a pass is open, endRenderPass
\* with none open and end while a pass is open are rejected; submitToQueue
\* and reset are entered only in Idle and leave the buffer Idle with no open
\* render pass.
C30_PrimaryStateMachine ==
    [][kind' = "primary" /\ life' = "live" =>
         /\ RecordingState' # "IdleWithOpenRenderPass"
         /\ Returned("Create") => RecordingState' = "Idle"
         /\ (kind = "primary" /\ life = "live" /\ RecordingState' # RecordingState) =>
              \/ /\ Returned("begin")
                 /\ RecordingState = "Idle" /\ RecordingState' = "Active"
              \/ /\ Returned("beginRenderPass")
                 /\ RecordingState = "Active" /\ RecordingState' = "RenderPassOpen"
                 /\ fActiveRenderPass' = lastOp'.arg[1]
              \/ /\ Returned("endRenderPass")
                 /\ RecordingState = "RenderPassOpen" /\ RecordingState' = "Active"
              \/ /\ Returned("end")
                 /\ RecordingState = "Active" /\ RecordingState' = "Idle"
         /\ (lastOp'.name = "beginRenderPass" /\ RecordingState # "Active")
              => RejectedStep
         /\ (lastOp'.name = "endRenderPass" /\ RecordingState # "RenderPassOpen")
              => RejectedStep
         /\ (lastOp'.name = "end" /\ RecordingState # "Active") => RejectedStep
         /\ (lastOp'.name = "begin" /\ RecordingState # "Idle") => RejectedStep
         /\ (\E n \in {"submitToQueue", "reset"} : Entered(n)) =>
              (RecordingState = "Idle" /\ RecordingState' = "Idle")]_vars
\* a primary buffer that went through begin, beginRenderPass,
\* executeCommands, endRenderPass and end has been reset, Idle with no open
\* render pass
C30_Witness ==
    /\ kind = "primary"
    /\ lastOp.name = "reset"
    /\ ~aborted
    /\ RecordingState = "Idle"
    /\ Emitted(calls, "recycleSecondaryCommandBuffer") > 0
    /\ \E rp \in RenderPasses : ReleasedBy(calls, "unref", rp) > 0

====
